---- MODULE Spec2Model ----
(***************************************************************************)
(* The tandas daemon: the SQLite Store (db), the Syncer between the JSONL  *)
(* append-log and the Store (sync), the debounced file Watcher (watch) and *)
(* the daemon's triggers (rpc): periodic export, watcher import, RPC       *)
(* sync/import.                                                            *)
(*                                                                         *)
(* Modelling conventions                                                   *)
(*  - A Go slice is [nil, elems]: nil and empty are different values.      *)
(*  - A JSON collection is [k, a] with k one of "absent", "null", "array". *)
(*  - A JSON string key that json.Marshal omits (omitempty) holds          *)
(*    AbsentStr.                                                           *)
(*  - Timestamps are naturals standing for RFC3339 strings in their        *)
(*    lexicographic order; 0 stands for the empty string.                  *)
(*  - String contents are opaque tokens: byte-level effects of encoding    *)
(*    (escaping, invalid UTF-8, the byte length of a record) are not       *)
(*    modelled, except that a log line may exceed the Scanner's buffer.    *)
(*  - Files are replaced atomically by rename, by the daemon and by the    *)
(*    external command surface alike, so an open file is a snapshot.       *)
(***************************************************************************)
EXTENDS Integers, Sequences, FiniteSets, TLC

\* ------------------------------------------------------------- bounds
MaxLines == 2
MaxFaults == 1
MaxOps == 2
MaxEdits == 1
MaxCalls == 2
MaxSignals == 2
MaxReqs == 2
MaxStamp == 2
MaxRuns == 11
MaxTraceEvents == 3
MaxId == 2
MaxInst == 3
MaxEvents == 1
MaxTime == 4
BurstCap == 2

\* --------------------------------------------------- program constants
\* calculateFlakiness: the window of the most recent runs.
FlakyWindow == 10

\* Watcher.debounce, in clock ticks of 250ms.
Debounce == 2

\* --------------------------------------------------------------- state
VARIABLES
    log,        \* the file issues.jsonl: [exists, lines]
    store,      \* the table tandas: id -> row
    lastSync,   \* Syncer.lastSync (0: the zero time)
    now,        \* the clock time.Now() reads
    th,         \* per goroutine: the position in ImportFromJSONL / ExportToJSONL and its locals
    hs,         \* per goroutine: what the running call has met (history)
    faults,     \* failures the environment has injected so far
    done,       \* the calls completed so far (history)
    evq,        \* fsnotify's Events channel: the events not yet received
    timers,     \* the deadlines of the time.AfterFunc timers that are armed
    timer,      \* Watcher.Start's local `timer`: 0 for nil, else the deadline it was given
    edits,      \* the external edits of the log so far
    calls,      \* the calls the daemon's triggers have started so far
    wh,         \* the Watcher's bursts and callbacks (history)
    wl,         \* the Watcher's event loop, its done channel and fsnotify's channels
    dm,         \* the daemon process: StartDaemon, Shutdown, the markers, the exit
                \* (in SpecDir: the directory and every process started in it)
    cn          \* the RPC connections: requests to decode, responses encoded

wvars == <<evq, timers, timer, edits, calls, wh>>

\* What the Syncer, the debounce and the daemon's triggers leave alone.
rvars == <<dm, cn>>

dvars == <<wl, dm, cn>>

vars == <<log, store, lastSync, now, th, hs, faults, done, evq, timers, timer, edits, calls, wh, wl, dm, cn>>

\* ----------------------------------------------------------- Go values
NilSlice == [nil |-> TRUE, elems |-> <<>>]

MkSlice(s) == [nil |-> FALSE, elems |-> s]

AbsentStr == "<absent>"

\* A struct field tagged `omitempty`: the key is left out when the string is empty.
OmitEmpty(s) == IF s = "" THEN AbsentStr ELSE s

\* json.Unmarshal of a string key: an absent key leaves the zero value.
StrOrZero(j) == IF j = AbsentStr THEN "" ELSE j

\* json.Marshal / json.Unmarshal of db.RunResult (duration and trace are omitempty).
MarshalRun(r) ==
    [ts |-> r.Timestamp, result |-> r.Result,
     duration |-> OmitEmpty(r.Duration), trace |-> OmitEmpty(r.Trace)]

UnmarshalRun(j) ==
    [Timestamp |-> j.ts, Result |-> j.result,
     Duration |-> StrOrZero(j.duration), Trace |-> StrOrZero(j.trace)]

\* json.Marshal / json.Unmarshal of db.Note (no omitempty).
MarshalNote(n) == [ts |-> n.Timestamp, type |-> n.Type, text |-> n.Text]

UnmarshalNote(j) == [Timestamp |-> j.ts, Type |-> j.type, Text |-> j.text]

\* json.Marshal of a slice: a nil slice is the JSON null, any other an array.
MarshalStrs(s) ==
    IF s.nil THEN [k |-> "null", a |-> <<>>] ELSE [k |-> "array", a |-> s.elems]

MarshalNotes(s) ==
    IF s.nil THEN [k |-> "null", a |-> <<>>]
    ELSE [k |-> "array", a |-> [i \in 1..Len(s.elems) |-> MarshalNote(s.elems[i])]]

MarshalRuns(s) ==
    IF s.nil THEN [k |-> "null", a |-> <<>>]
    ELSE [k |-> "array", a |-> [i \in 1..Len(s.elems) |-> MarshalRun(s.elems[i])]]

\* json.Unmarshal into a fresh slice: an absent key or null leaves it nil.
UnmarshalStrs(j) == IF j.k = "array" THEN MkSlice(j.a) ELSE NilSlice

UnmarshalNotes(j) ==
    IF j.k = "array" THEN MkSlice([i \in 1..Len(j.a) |-> UnmarshalNote(j.a[i])])
    ELSE NilSlice

UnmarshalRuns(j) ==
    IF j.k = "array" THEN MkSlice([i \in 1..Len(j.a) |-> UnmarshalRun(j.a[i])])
    ELSE NilSlice

\* json.Marshal(db.Tanda): `file` is omitempty, the collections are not.
Marshal(t) ==
    [id |-> t.ID, title |-> t.Title, status |-> t.Status,
     file |-> OmitEmpty(t.File),
     covers |-> MarshalStrs(t.Covers),
     depends_on |-> MarshalStrs(t.DependsOn),
     notes |-> MarshalNotes(t.Notes),
     run_history |-> MarshalRuns(t.RunHistory),
     created_at |-> t.CreatedAt, updated_at |-> t.UpdatedAt]

\* json.Unmarshal(line, &tanda) of a line that is a JSON object of the right types.
Unmarshal(o) ==
    [ID |-> o.id, Title |-> o.title, Status |-> o.status,
     File |-> StrOrZero(o.file),
     Covers |-> UnmarshalStrs(o.covers),
     DependsOn |-> UnmarshalStrs(o.depends_on),
     Notes |-> UnmarshalNotes(o.notes),
     RunHistory |-> UnmarshalRuns(o.run_history),
     CreatedAt |-> o.created_at, UpdatedAt |-> o.updated_at]

\* "Initialize empty slices if nil".
NilToEmpty(s) == IF s.nil THEN MkSlice(<<>>) ELSE s

Normalize(t) ==
    [t EXCEPT !.Covers = NilToEmpty(@), !.DependsOn = NilToEmpty(@),
              !.Notes = NilToEmpty(@), !.RunHistory = NilToEmpty(@)]

\* ------------------------------------------------------------ db.Store
\* Mutant: the failures of the whole history over its length.
calculateFlakinessWhole(history) ==
    LET n == Len(history.elems)
        failures == Cardinality({i \in 1..n : history.elems[i].Result = "fail"})
    IN  IF n = 0 THEN [num |-> 0, den |-> 1] ELSE [num |-> failures, den |-> n]

\* failures / len(window) over the last FlakyWindow runs, as a fraction.
calculateFlakiness(history) ==
    LET n == Len(history.elems)
        lo == IF n > FlakyWindow THEN n - FlakyWindow + 1 ELSE 1
        failures == Cardinality({i \in lo..n : history.elems[i].Result = "fail"})
    IN  IF n = 0 THEN [num |-> 0, den |-> 1]
        ELSE [num |-> failures, den |-> n - lo + 1]

\* The values UpsertTanda binds to the INSERT's placeholders.
RowOf(t) ==
    LET n == Len(t.RunHistory.elems) IN
    [title |-> t.Title, status |-> t.Status, file |-> t.File,
     covers |-> MarshalStrs(t.Covers),
     depends_on |-> MarshalStrs(t.DependsOn),
     notes |-> MarshalNotes(t.Notes),
     run_history |-> MarshalRuns(t.RunHistory),
     flakiness_score |-> calculateFlakiness(t.RunHistory),
     last_run_at |-> IF n > 0 THEN t.RunHistory.elems[n].Timestamp ELSE 0,
     last_run_result |-> IF n > 0 THEN t.RunHistory.elems[n].Result ELSE "",
     created_at |-> t.CreatedAt, updated_at |-> t.UpdatedAt]

\* Mutant: the conflict clause also sets created_at.
ConflictUpdateAll(old, new) == new

\* ON CONFLICT(id) DO UPDATE SET ...: every column but id and created_at.
ConflictUpdate(old, new) == [new EXCEPT !.created_at = old.created_at]

\* Mutant: INSERT OR IGNORE, a row of the id is left as it is.
UpsertIgnoresConflict(s, t) == IF t.ID \in DOMAIN s THEN s ELSE s @@ (t.ID :> RowOf(t))

\* UpsertTanda: one INSERT ... ON CONFLICT statement on the table (id -> row).
UpsertTanda(s, t) ==
    IF t.ID \in DOMAIN s
    THEN [s EXCEPT ![t.ID] = ConflictUpdate(s[t.ID], RowOf(t))]
    ELSE s @@ (t.ID :> RowOf(t))

EmptyStore == [i \in {} |-> {}]

\* Mutant: the WHERE clause is missing.
DeleteWithoutWhere(s, id) == EmptyStore

\* DeleteTanda: DELETE FROM tandas WHERE id = ?
DeleteTanda(s, id) == [i \in DOMAIN s \ {id} |-> s[i]]

\* Mutant: only the rows not touched since the last sync are deleted.
ClearAllStale(s) == [id \in {i \in DOMAIN s : s[i].updated_at > lastSync} |-> s[id]]

\* ClearAll: DELETE FROM tandas.
ClearAll(s) == EmptyStore

\* Mutant: the scan leaves the file column out.
ScanRowWithoutFile(id, r) ==
    Normalize(
    [ID |-> id, Title |-> r.title, Status |-> r.status, File |-> "",
     Covers |-> UnmarshalStrs(r.covers),
     DependsOn |-> UnmarshalStrs(r.depends_on),
     Notes |-> UnmarshalNotes(r.notes),
     RunHistory |-> UnmarshalRuns(r.run_history),
     CreatedAt |-> r.created_at, UpdatedAt |-> r.updated_at])

\* GetAllTandas, one scanned row: the JSON columns are unmarshalled and nil
\* collections replaced by empty ones.
ScanRow(id, r) ==
    Normalize(
    [ID |-> id, Title |-> r.title, Status |-> r.status, File |-> r.file,
     Covers |-> UnmarshalStrs(r.covers),
     DependsOn |-> UnmarshalStrs(r.depends_on),
     Notes |-> UnmarshalNotes(r.notes),
     RunHistory |-> UnmarshalRuns(r.run_history),
     CreatedAt |-> r.created_at, UpdatedAt |-> r.updated_at])

\* ORDER BY updated_at DESC: every order of the ids that is descending in
\* updated_at (rows with equal updated_at come in an order SQL leaves open).
RowOrders(s) ==
    LET n == Cardinality(DOMAIN s) IN
    {q \in [1..n -> DOMAIN s] :
        /\ \A i, j \in 1..n : i # j => q[i] # q[j]
        /\ \A i, j \in 1..n : i < j => s[q[i]].updated_at >= s[q[j]].updated_at}

\* Mutant: the query has a LIMIT 1.
GetAllTandasLimitOne(s, q) ==
    [i \in 1..(IF Len(q) > 1 THEN 1 ELSE Len(q)) |-> ScanRow(q[i], s[q[i]])]

GetAllTandas(s, q) == [i \in 1..Len(q) |-> ScanRow(q[i], s[q[i]])]

\* ------------------------------------------------------- the append-log
\* A line of issues.jsonl as ImportFromJSONL meets it: empty, longer than the
\* Scanner's buffer, not a JSON object of db.Tanda's types, or such an object.
BlankLine == [kind |-> "blank", obj |-> <<>>]

MalformedLine == [kind |-> "malformed", obj |-> <<>>]

TooLongLine == [kind |-> "toolong", obj |-> <<>>]

ObjectLine(o) == [kind |-> "object", obj |-> <<o>>]

AbsentColl == [k |-> "absent", a |-> <<>>]

\* A file: its lines and its modification time (os.FileInfo.ModTime).
NoFile == [exists |-> FALSE, lines |-> <<>>, mtime |-> 0]

\* A file last written at time 1, when the clock of every behaviour starts.
FileOf(ls) == [exists |-> TRUE, lines |-> ls, mtime |-> 1]

\* Mutant: a line json.Unmarshal rejects ends the import.
LineDispositionStrict(line) ==
    CASE line.kind = "toolong" -> "abort"
      [] line.kind = "blank" -> "skip"
      [] line.kind = "malformed" -> "abort"
      [] OTHER -> "upsert"

\* What the scan loop does with a line: scanner.Scan fails on a token longer
\* than the buffer, an empty line is skipped, a json.Unmarshal error is a
\* warning, anything else is upserted.
LineDisposition(line) ==
    CASE line.kind = "toolong" -> "abort"
      [] line.kind = "blank" -> "skip"
      [] line.kind = "malformed" -> "warn"
      [] OTHER -> "upsert"

\* The record a well-formed line is upserted as.
TandaOfLine(line) == Normalize(Unmarshal(line.obj[1]))

\* The line ExportToJSONL writes for one record.
LineOfTanda(t) == ObjectLine(Marshal(t))

\* ------------------------------------------------------------- samples
Run1 == [Timestamp |-> 2, Result |-> "fail", Duration |-> "", Trace |-> "trace.zip"]

Note1 == [Timestamp |-> 1, Type |-> "info", Text |-> "slow"]

\* A record as the repository's tests build it: every collection nil.
TandaA ==
    [ID |-> "a", Title |-> "Login", Status |-> "active", File |-> "",
     Covers |-> NilSlice, DependsOn |-> NilSlice, Notes |-> NilSlice,
     RunHistory |-> NilSlice, CreatedAt |-> 1, UpdatedAt |-> 1]

TandaA2 ==
    [ID |-> "a", Title |-> "Login v2", Status |-> "flaky", File |-> "login.spec.ts",
     Covers |-> MkSlice(<<"auth">>), DependsOn |-> MkSlice(<<"b">>),
     Notes |-> MkSlice(<<Note1>>), RunHistory |-> MkSlice(<<Run1>>),
     CreatedAt |-> 2, UpdatedAt |-> 3]

TandaB ==
    [ID |-> "b", Title |-> "Checkout", Status |-> "active", File |-> "",
     Covers |-> MkSlice(<<>>), DependsOn |-> NilSlice, Notes |-> MkSlice(<<>>),
     RunHistory |-> NilSlice, CreatedAt |-> 1, UpdatedAt |-> 1]

\* A line with the collection keys left out (the tests' map[string]string entry).
LineA ==
    ObjectLine([Marshal(TandaA) EXCEPT !.covers = AbsentColl, !.depends_on = AbsentColl,
                                       !.notes = AbsentColl, !.run_history = AbsentColl])

LineA2 == ObjectLine(Marshal(TandaA2))

\* A line with some collections written as null.
LineB == ObjectLine(Marshal(TandaB))

LineSamples == {BlankLine, MalformedLine, TooLongLine, LineA, LineA2, LineB}

LogSamples ==
    {NoFile} \cup {FileOf(ls) : ls \in UNION {[1..n -> LineSamples] : n \in 0..MaxLines}}

\* Stores as sequences of UpsertTanda calls leave them.
StoreSamples ==
    {EmptyStore,
     UpsertTanda(EmptyStore, TandaA),
     UpsertTanda(UpsertTanda(EmptyStore, TandaA), TandaB),
     UpsertTanda(UpsertTanda(EmptyStore, TandaB), TandaA2)}

\* ---------------------------------------------------------- goroutines
Procs == {"rpc", "rpc2", "ticker", "watcher", "main"}

IdleThread ==
    [pc |-> "idle", op |-> "none", ret |-> "none",
     file |-> <<>>, pos |-> 0,          \* the opened log and the Scanner's line number
     tandas |-> <<>>, buf |-> <<>>,     \* the records read and the bufio.Writer's buffer
     tmp |-> NoFile]                    \* the temporary file

IdleHistory ==
    [startLog |-> NoFile, startStore |-> EmptyStore, startSync |-> 0,
     flt |-> {}, skipped |-> {}, warn |-> 0]

\* No burst yet: the time of the last qualifying event, the events of the
\* burst, the callbacks since the burst began and the time of the last one;
\* ign: the loop has met an event it passed over (`continue`).
IdleWatch == [lastEv |-> 0, size |-> 0, n |-> 0, at |-> 0, ign |-> FALSE]

\* The RPC connections, none accepted yet.
Conns == {"rpc", "rpc2"}

NoConn ==
    [st |-> "none",       \* "none", "open" (handleConnection runs) or "closed"
     inq |-> <<>>,        \* what the peer has sent and the Decoder has not read
     cur |-> <<>>,        \* the request handleRequest is working on
     out |-> <<>>,        \* the responses encoded
     got |-> <<>>,        \* the requests decoded (history)
     ran |-> <<>>,        \* per response, the Syncer calls made for it (history)
     n |-> 0,             \* the Syncer calls made for the request in hand (history)
     why |-> "",          \* what ended handleConnection (history)
     late |-> FALSE]      \* accepted after a decode error elsewhere (history)

NoConns == [c \in Conns |-> NoConn]

\* The daemon process before StartDaemon: the directory holds nothing.
DaemonSample ==
    [main |-> "parse", sd |-> "none", loop |-> "none", interval |-> "ok",
     sock |-> FALSE, pid |-> FALSE, lock |-> FALSE, dbfile |-> FALSE,
     dbOpen |-> FALSE, listening |-> FALSE, doneClosed |-> FALSE, watcher |-> FALSE,
     trace |-> FALSE,      \* d.traceWatcher is not nil
     ivl |-> <<5, "m">>,   \* intervalStr, as numbers and units
     dur |-> 300,          \* d.interval, in seconds
     ospid |-> 101,        \* os.Getpid()
     sig |-> 0, sigs |-> 0, exit |-> "none", err |-> "",
     found |-> FALSE,      \* the socket marker existed at the start (history)
     logged |-> 0,         \* the "Accept error" lines printed (history)
     nimp |-> 0,           \* the imports main has called (history)
     imp |-> "none",       \* what the startup import returned (history)
     order |-> <<>>]       \* the steps of Shutdown completed so far (history)

\* The daemon in the accept loop.
RunningDaemon ==
    [DaemonSample EXCEPT !.main = "accept", !.sd = "wait", !.loop = "running",
                         !.sock = TRUE, !.pid = TRUE, !.lock = TRUE, !.dbfile = TRUE,
                         !.dbOpen = TRUE, !.listening = TRUE, !.watcher = TRUE,
                         !.trace = TRUE, !.nimp = 1, !.imp = "ok"]

\* TraceWatcher.Start is in its loop, Stop has not been called, the inbox log
\* does not exist.
TraceRunning ==
    [loop |-> "running", stop |-> "none", done |-> FALSE, closed |-> FALSE,
     evq |-> <<>>,         \* fsnotify's Events channel
     inbox |-> <<>>,       \* the lines of trace_inbox.jsonl
     old |-> <<>>,         \* the inbox at the start (history)
     n |-> 0,              \* the events delivered (history)
     calls |-> 0,          \* the callback's invocations (history)
     want |-> 0,           \* the create-or-write events received (history)
     got |-> <<>>]         \* the events whose append succeeded, and when (history)

\* Watcher.Start is in its loop, Stop has not been called, no channel is closed.
LoopRunning ==
    [loop |-> "running", stop |-> "none", done |-> FALSE, closed |-> FALSE,
     pending |-> FALSE,    \* a timer was armed when Stop was called (history)
     tr |-> TraceRunning]  \* the TraceWatcher

\* The parts of the state a specification does not exercise, at rest.
RestIdle == wl = LoopRunning /\ dm = DaemonSample /\ cn = NoConns

\* The environment may fail one more system call.
FaultOpts(kinds) == IF faults < MaxFaults THEN {"none"} \cup kinds ELSE {"none"}

\* A call returns r to its caller.
Return(t, r) == [t EXCEPT !.pc = "idle", !.ret = r]

\* Mutant: a failure path that forgets os.Remove.
RemoveTempForgotten(f) == f

\* os.Remove(tmpPath) on a failure path.
RemoveTemp(f) == NoFile

\* os.Rename(tmpPath, jsonlPath): the destination becomes the temporary file.
Rename(tmpf, dest) == tmpf

\* Mutant: the Store is cleared before the log is opened.
StoreClearedBeforeOpen(s) == [i \in {} |-> {}]

\* Mutant: the export closes the temporary file without writer.Flush().
FlushForgotten(f, buf) == f

\* writer.Flush(): the buffered lines reach the temporary file.
Flush(f, buf) == [exists |-> TRUE, lines |-> f.lines \o buf, mtime |-> now]

\* A write sets the file's modification time.
Touch(f) == [f EXCEPT !.mtime = now]

\* ImportFromJSONL returns before ClearAll when the log cannot be opened.
StoreOnOpenFailure(s) == s

\* ------------------------------------------------- Syncer.ImportFromJSONL
CallImport(p) ==
    /\ th[p].pc = "idle"
    /\ th' = [th EXCEPT ![p] = [IdleThread EXCEPT !.pc = "imp_open", !.op = "import"]]
    /\ UNCHANGED <<log, store, lastSync, now, faults>>

\* os.Open(s.jsonlPath)
ImportOpen(p) ==
    /\ th[p].pc = "imp_open"
    /\ \E f \in FaultOpts({"open"}) :
        /\ f = "open" => log.exists
        /\ IF f = "open"
           THEN /\ th' = [th EXCEPT ![p] = Return(@, "err")]
                /\ hs' = [hs EXCEPT ![p].flt = @ \cup {f}]
                /\ faults' = faults + 1
                /\ store' = StoreOnOpenFailure(store)
           ELSE IF ~log.exists
           THEN /\ th' = [th EXCEPT ![p] = Return(@, "ok")]
                /\ store' = StoreOnOpenFailure(store)
                /\ UNCHANGED <<hs, faults>>
           ELSE /\ th' = [th EXCEPT ![p].pc = "imp_clear", ![p].file = log.lines]
                /\ UNCHANGED <<hs, faults, store>>
    /\ UNCHANGED <<log, lastSync, now>>

\* s.store.ClearAll()
ImportClear(p) ==
    /\ th[p].pc = "imp_clear"
    /\ \E f \in FaultOpts({"clear"}) :
        IF f = "clear"
        THEN /\ th' = [th EXCEPT ![p] = Return(@, "err")]
             /\ hs' = [hs EXCEPT ![p].flt = @ \cup {f}]
             /\ faults' = faults + 1
             /\ UNCHANGED store
        ELSE /\ th' = [th EXCEPT ![p].pc = "imp_scan", ![p].pos = 1]
             /\ store' = ClearAll(store)
             /\ UNCHANGED <<hs, faults>>
    /\ UNCHANGED <<log, lastSync, now>>

\* One turn of `for scanner.Scan()`, or the end of the loop.
ImportScan(p) ==
    LET t == th[p]
        eof == t.pos > Len(t.file)
        d == IF eof THEN "eof" ELSE LineDisposition(t.file[t.pos])
    IN
    /\ t.pc = "imp_scan"
    /\ \E f \in FaultOpts((IF eof THEN {} ELSE {"read"})
                          \cup (IF d = "upsert" THEN {"upsert"} ELSE {})) :
        CASE f = "read" \/ (f = "none" /\ d = "abort") ->
               \* scanner.Err() is not nil
               /\ th' = [th EXCEPT ![p] = Return(@, "err")]
               /\ hs' = [hs EXCEPT ![p].flt = IF f = "read" THEN @ \cup {f} ELSE @]
               /\ faults' = IF f = "read" THEN faults + 1 ELSE faults
               /\ UNCHANGED <<store, lastSync>>
          [] f = "none" /\ d = "eof" ->
               /\ th' = [th EXCEPT ![p] = Return(@, "ok")]
               /\ lastSync' = now
               /\ UNCHANGED <<store, hs, faults>>
          [] f = "none" /\ d = "skip" ->
               /\ th' = [th EXCEPT ![p].pos = @ + 1]
               /\ UNCHANGED <<store, lastSync, hs, faults>>
          [] f = "none" /\ d = "warn" ->
               /\ th' = [th EXCEPT ![p].pos = @ + 1]
               /\ hs' = [hs EXCEPT ![p].warn = @ + 1]
               /\ UNCHANGED <<store, lastSync, faults>>
          [] f = "upsert" ->
               /\ th' = [th EXCEPT ![p].pos = @ + 1]
               /\ hs' = [hs EXCEPT ![p].warn = @ + 1, ![p].flt = @ \cup {f},
                                   ![p].skipped = @ \cup {t.pos}]
               /\ faults' = faults + 1
               /\ UNCHANGED <<store, lastSync>>
          [] f = "none" /\ d = "upsert" ->
               /\ th' = [th EXCEPT ![p].pos = @ + 1]
               /\ store' = UpsertTanda(store, TandaOfLine(t.file[t.pos]))
               /\ UNCHANGED <<lastSync, hs, faults>>
    /\ UNCHANGED <<log, now>>

\* --------------------------------------------------- Syncer.ExportToJSONL
CallExport(p) ==
    /\ th[p].pc = "idle"
    /\ th' = [th EXCEPT ![p] = [IdleThread EXCEPT !.pc = "exp_getall", !.op = "export"]]
    /\ UNCHANGED <<log, store, lastSync, now, faults>>

\* Mutant: the time of the attempt is recorded on the failure paths too.
LastSyncStamped(ls) == now

\* Every failure path returns before `s.lastSync = time.Now()`.
LastSyncOnFailure(ls) == ls

\* A failure after the temporary file was created: (Close,) Remove, return the error.
ExportFail(p, f) ==
    /\ th' = [th EXCEPT ![p] = [Return(@, "err") EXCEPT !.tmp = RemoveTemp(@), !.buf = <<>>]]
    /\ hs' = [hs EXCEPT ![p].flt = @ \cup {f}]
    /\ faults' = faults + 1
    /\ lastSync' = LastSyncOnFailure(lastSync)
    /\ UNCHANGED <<log, store>>

\* s.store.GetAllTandas()
ExportGetAll(p) ==
    /\ th[p].pc = "exp_getall"
    /\ \E f \in FaultOpts({"getall"}) :
        IF f = "getall"
        THEN /\ th' = [th EXCEPT ![p] = Return(@, "err")]
             /\ hs' = [hs EXCEPT ![p].flt = @ \cup {f}]
             /\ faults' = faults + 1
        ELSE /\ \E q \in RowOrders(store) :
                  th' = [th EXCEPT ![p].pc = "exp_create",
                                   ![p].tandas = GetAllTandas(store, q)]
             /\ UNCHANGED <<hs, faults>>
    /\ UNCHANGED <<log, store, lastSync, now>>

\* os.CreateTemp(dir, "issues-*.jsonl.tmp") and bufio.NewWriter
ExportCreateTemp(p) ==
    /\ th[p].pc = "exp_create"
    /\ \E f \in FaultOpts({"create"}) :
        IF f = "create"
        THEN /\ th' = [th EXCEPT ![p] = Return(@, "err")]
             /\ hs' = [hs EXCEPT ![p].flt = @ \cup {f}]
             /\ faults' = faults + 1
        ELSE /\ th' = [th EXCEPT ![p].pc = "exp_write", ![p].pos = 1,
                                 ![p].tmp = Touch(FileOf(<<>>)), ![p].buf = <<>>]
             /\ UNCHANGED <<hs, faults>>
    /\ UNCHANGED <<log, store, lastSync, now>>

\* One turn of `for _, t := range tandas`: Marshal, Write, WriteString("\n").
\* The bufio.Writer passes its buffer on to the file whenever it is full.
ExportWrite(p) ==
    LET t == th[p] IN
    /\ t.pc = "exp_write"
    /\ IF t.pos > Len(t.tandas)
       THEN /\ th' = [th EXCEPT ![p].pc = "exp_flush"]
            /\ UNCHANGED <<log, store, lastSync, hs, faults>>
       ELSE \E spill \in BOOLEAN :
            \E f \in FaultOpts({"marshal"} \cup (IF spill THEN {"write"} ELSE {})) :
              IF f # "none"
              THEN ExportFail(p, f)
              ELSE /\ th' = [th EXCEPT
                         ![p].pos = @ + 1,
                         ![p].buf = IF spill THEN <<>>
                                    ELSE Append(@, LineOfTanda(t.tandas[t.pos])),
                         ![p].tmp = IF spill
                                    THEN Touch(FileOf(@.lines \o t.buf \o <<LineOfTanda(t.tandas[t.pos])>>))
                                    ELSE @]
                   /\ UNCHANGED <<log, store, lastSync, hs, faults>>
    /\ UNCHANGED now

\* writer.Flush()
ExportFlush(p) ==
    /\ th[p].pc = "exp_flush"
    /\ \E f \in FaultOpts({"flush"}) :
        IF f # "none"
        THEN ExportFail(p, f)
        ELSE /\ th' = [th EXCEPT ![p].pc = "exp_close", ![p].buf = <<>>,
                                 ![p].tmp = Flush(@, th[p].buf)]
             /\ UNCHANGED <<log, store, lastSync, hs, faults>>
    /\ UNCHANGED now

\* tmpFile.Close()
ExportClose(p) ==
    /\ th[p].pc = "exp_close"
    /\ \E f \in FaultOpts({"close"}) :
        IF f # "none"
        THEN ExportFail(p, f)
        ELSE /\ th' = [th EXCEPT ![p].pc = "exp_rename"]
             /\ UNCHANGED <<log, store, lastSync, hs, faults>>
    /\ UNCHANGED now

\* os.Rename(tmpPath, s.jsonlPath), then s.lastSync = time.Now()
ExportRename(p) ==
    /\ th[p].pc = "exp_rename"
    /\ \E f \in FaultOpts({"rename"}) :
        IF f # "none"
        THEN ExportFail(p, f)
        ELSE /\ log' = Rename(th[p].tmp, log)
             /\ th' = [th EXCEPT ![p] = [Return(@, "ok") EXCEPT !.tmp = NoFile]]
             /\ lastSync' = now
             /\ UNCHANGED <<store, hs, faults>>
    /\ UNCHANGED now

\* ------------------------------------------- the Syncer alone (SpecSync)
\* One caller runs imports and exports one after the other on any log and
\* any Store; the environment may fail a system call.
\* The summary of a call, recorded when it returns.
Summary(p) ==
    [op |-> th'[p].op, ret |-> th'[p].ret, flt |-> hs'[p].flt,
     before |-> hs'[p].startStore, after |-> store', logAfter |-> log']

Observe(p) ==
    done' = IF th[p].pc # "idle" /\ th'[p].pc = "idle" THEN Append(done, Summary(p)) ELSE done

InitSync ==
    /\ log \in LogSamples
    /\ store \in StoreSamples
    /\ lastSync = 0
    /\ now = 1
    /\ th = [p \in Procs |-> IdleThread]
    /\ hs = [p \in Procs |-> IdleHistory]
    /\ faults = 0
    /\ done = <<>>
    /\ evq = <<>>
    /\ timers = {}
    /\ timer = 0
    /\ edits = 0
    /\ calls = 0
    /\ wh = IdleWatch
    /\ RestIdle

SyncCall ==
    /\ Len(done) < MaxOps
    /\ CallImport("rpc") \/ CallExport("rpc")
    /\ hs' = [hs EXCEPT !["rpc"] = [IdleHistory EXCEPT !.startLog = log,
                                      !.startStore = store, !.startSync = lastSync]]
    /\ UNCHANGED <<done, wvars, dvars>>

SyncStep ==
    /\ \/ ImportOpen("rpc") \/ ImportClear("rpc") \/ ImportScan("rpc")
       \/ ExportGetAll("rpc") \/ ExportCreateTemp("rpc") \/ ExportWrite("rpc")
       \/ ExportFlush("rpc") \/ ExportClose("rpc") \/ ExportRename("rpc")
    /\ Observe("rpc")
    /\ UNCHANGED <<wvars, dvars>>

NextSync == SyncCall \/ SyncStep

SpecSync == InitSync /\ [][NextSync]_vars

\* --------------------------------------------- the Store alone (SpecStore)
\* Callers of UpsertTanda, as the repository's tests are: the records have
\* nil or filled collections and one of two ids.
UpsertSamples ==
    {[TandaB EXCEPT !.ID = i, !.Title = IF ca = 1 THEN "Login" ELSE "Checkout",
                    !.Covers = c, !.DependsOn = NilSlice, !.Notes = NilSlice,
                    !.RunHistory = r, !.CreatedAt = ca, !.UpdatedAt = ca + 1] :
        i \in {"a", "b"}, c \in {NilSlice, MkSlice(<<"auth">>)},
        r \in {NilSlice, MkSlice(<<Run1>>)}, ca \in 1..MaxStamp}

\* s.db.Exec(INSERT ... ON CONFLICT ...): one statement, which fails as a
\* whole or is applied as a whole. `done` holds the last call (history).
StoreUpsert(t) ==
    /\ \E f \in FaultOpts({"exec"}) :
        /\ faults' = IF f = "none" THEN faults ELSE faults + 1
        /\ store' = IF f = "none" THEN UpsertTanda(store, t) ELSE store
        /\ done' = <<[op |-> "upsert", t |-> t, ok |-> f = "none"]>>
    /\ UNCHANGED <<log, lastSync, now, th, hs, wvars, dvars>>

\* s.db.Exec(DELETE ... WHERE id = ?): a statement that matches no row is
\* no error.
StoreDelete(id) ==
    /\ \E f \in FaultOpts({"exec"}) :
        /\ faults' = IF f = "none" THEN faults ELSE faults + 1
        /\ store' = IF f = "none" THEN DeleteTanda(store, id) ELSE store
        /\ done' = <<[op |-> "delete", t |-> [TandaB EXCEPT !.ID = id], ok |-> f = "none"]>>
    /\ UNCHANGED <<log, lastSync, now, th, hs, wvars, dvars>>

\* s.db.Exec(DELETE FROM tandas)
StoreClearAll ==
    /\ \E f \in FaultOpts({"exec"}) :
        /\ faults' = IF f = "none" THEN faults ELSE faults + 1
        /\ store' = IF f = "none" THEN ClearAll(store) ELSE store
        /\ done' = <<[op |-> "clear", t |-> TandaB, ok |-> f = "none"]>>
    /\ UNCHANGED <<log, lastSync, now, th, hs, wvars, dvars>>

InitStore ==
    /\ log = NoFile
    /\ store = EmptyStore
    /\ lastSync = 0
    /\ now = 1
    /\ th = [p \in Procs |-> IdleThread]
    /\ hs = [p \in Procs |-> IdleHistory]
    /\ faults = 0
    /\ done = <<>>
    /\ evq = <<>>
    /\ timers = {}
    /\ timer = 0
    /\ edits = 0
    /\ calls = 0
    /\ wh = IdleWatch
    /\ RestIdle

NextStore ==
    \/ \E t \in UpsertSamples : StoreUpsert(t)
    \/ \E id \in {"a", "b"} : StoreDelete(id)
    \/ StoreClearAll

SpecStore == InitStore /\ [][NextStore]_vars

\* ------------------------------------- calculateFlakiness (SpecFlaky)
\* Run histories of every length up to MaxRuns, each run a pass or a fail.
RunAt(i, res) == [Timestamp |-> i, Result |-> res, Duration |-> "", Trace |-> ""]

RunSamples ==
    UNION {{[i \in 1..n |-> RunAt(i, f[i])] : f \in [1..n -> {"pass", "fail"}]} :
              n \in 0..MaxRuns}

\* The caller upserts the record it holds.
UpsertHeld ==
    /\ th["main"].tandas # <<>>
    /\ store' = UpsertTanda(store, Head(th["main"].tandas))
    /\ th' = [th EXCEPT !["main"].tandas = Tail(@)]
    /\ UNCHANGED <<log, lastSync, now, hs, faults, done, wvars, dvars>>

\* A caller holds a record with some run history; the Store is empty or has
\* a record of that id.
InitFlaky ==
    /\ log = NoFile
    /\ store \in {EmptyStore, UpsertTanda(EmptyStore, TandaA2)}
    /\ lastSync = 0
    /\ now = 1
    /\ \E h \in RunSamples :
          th = [p \in Procs |->
                  IF p = "main"
                  THEN [IdleThread EXCEPT !.tandas = <<[TandaA EXCEPT !.RunHistory = MkSlice(h)]>>]
                  ELSE IdleThread]
    /\ hs = [p \in Procs |-> IdleHistory]
    /\ faults = 0
    /\ done = <<>>
    /\ evq = <<>>
    /\ timers = {}
    /\ timer = 0
    /\ edits = 0
    /\ calls = 0
    /\ wh = IdleWatch
    /\ RestIdle

NextFlaky == UpsertHeld

SpecFlaky == InitFlaky /\ [][NextFlaky]_vars

\* --------------------------------------------------------- watch.Watcher
\* filepath.Base(w.filePath)
FileName == "issues.jsonl"

\* An fsnotify.Event: the base name of the path and the bits of Op.
Ev(name, op) == [name |-> name, op |-> op]

\* Mutant: the name alone is looked at.
QualifiesAnyOp(e) == e.name = FileName

\* "Only care about our specific file", "only care about writes and creates".
Qualifies(e) == e.name = FileName /\ e.op \cap {"write", "create"} # {}

\* Mutant: the pending timer is left armed.
StopForgotten(ts, t) == ts

\* if timer != nil { timer.Stop() }
StopTimer(ts, t) == IF t # 0 THEN ts \ {t} ELSE ts

\* The armed timers whose deadline has come. The runtime runs a due timer's
\* function before the clock moves on and before the loop's next receive.
Due == {d \in timers : d <= now}

\* What a qualifying event does to the history of bursts: it continues the
\* burst when it comes less than Debounce after the previous one.
BurstAfter(h) ==
    IF h.lastEv = 0 \/ now >= h.lastEv + Debounce
    THEN [lastEv |-> now, size |-> 1, n |-> 0, at |-> 0, ign |-> h.ign]
    ELSE [h EXCEPT !.lastEv = now, !.size = IF @ < BurstCap THEN @ + 1 ELSE @]

\* case event, ok := <-w.watcher.Events
WatcherRecv ==
    /\ wl.loop = "running"
    /\ evq # <<>>
    /\ Due = {}
    /\ evq' = Tail(evq)
    /\ IF Qualifies(Head(evq))
       THEN /\ timers' = StopTimer(timers, timer) \cup {now + Debounce}
            /\ timer' = now + Debounce
            /\ wh' = BurstAfter(wh)
       ELSE /\ wh' = [wh EXCEPT !.ign = TRUE]
            /\ UNCHANGED <<timers, timer>>
    /\ UNCHANGED <<log, store, lastSync, now, th, hs, faults, done, edits, calls, dvars>>

\* The timer's function: w.callback(), which is syncer.ImportFromJSONL().
TimerFire ==
    /\ \E d \in Due : timers' = timers \ {d}
    /\ CallImport("watcher")
    /\ hs' = [hs EXCEPT !["watcher"] = IdleHistory]
    /\ wh' = [wh EXCEPT !.n = @ + 1, !.at = now]
    /\ calls' = calls + 1
    /\ UNCHANGED <<done, evq, timer, edits, dvars>>

\* The clock advances, never past the deadline of an armed timer.
Tick ==
    /\ now < MaxTime
    /\ Due = {}
    /\ now' = now + 1
    /\ UNCHANGED <<log, store, lastSync, th, hs, faults, done, wvars, dvars>>

\* One step of the call goroutine p is in.
SyncerStep(p) ==
    \/ ImportOpen(p) \/ ImportClear(p) \/ ImportScan(p)
    \/ ExportGetAll(p) \/ ExportCreateTemp(p) \/ ExportWrite(p)
    \/ ExportFlush(p) \/ ExportClose(p) \/ ExportRename(p)

\* ------------------------------------------- the Watcher alone (SpecWatch)
\* The directory sees any events at any times; the callback is the daemon's.
EventSamples ==
    {Ev(FileName, {"write"}), Ev(FileName, {"create"}), Ev(FileName, {"chmod"}),
     Ev(FileName, {"remove"}), Ev(FileName, {"rename"}),
     Ev("issues-1.jsonl.tmp", {"create"})}

FsEvent(e) ==
    /\ ~wl.closed
    /\ Len(evq) < MaxEvents
    /\ evq' = Append(evq, e)
    /\ UNCHANGED <<log, store, lastSync, now, th, hs, faults, done, timers, timer, edits, calls, wh, dvars>>

InitWatch ==
    /\ log \in {NoFile, FileOf(<<LineB>>)}
    /\ store = EmptyStore
    /\ lastSync = 0
    /\ now = 1
    /\ th = [p \in Procs |-> IdleThread]
    /\ hs = [p \in Procs |-> IdleHistory]
    /\ faults = 0
    /\ done = <<>>
    /\ evq = <<>>
    /\ timers = {}
    /\ timer = 0
    /\ edits = 0
    /\ calls = 0
    /\ wh = IdleWatch
    /\ RestIdle

CallbackStep ==
    /\ ImportOpen("watcher") \/ ImportClear("watcher") \/ ImportScan("watcher")
    /\ UNCHANGED <<done, wvars, dvars>>

NextWatch ==
    \/ \E e \in EventSamples : FsEvent(e)
    \/ WatcherRecv
    \/ TimerFire
    \/ Tick
    \/ CallbackStep

SpecWatch == InitWatch /\ [][NextWatch]_vars

\* ------------------------------------- the Watcher stopped (SpecStop)
\* Watcher.Stop, first statement: close(w.done)
StopCloseDone ==
    /\ wl.stop = "none"
    /\ wl' = [wl EXCEPT !.stop = "closing", !.done = TRUE, !.pending = timers # {}]
    /\ UNCHANGED <<log, store, lastSync, now, th, hs, faults, done, evq, timers, timer,
                   edits, calls, wh, rvars>>

\* Watcher.Stop, second statement: w.watcher.Close(). fsnotify closes its
\* Events and Errors channels; what the loop had not received is gone.
StopCloseWatcher ==
    /\ wl.stop = "closing"
    /\ wl' = [wl EXCEPT !.stop = "returned", !.closed = TRUE]
    /\ evq' = <<>>
    /\ UNCHANGED <<log, store, lastSync, now, th, hs, faults, done, timers, timer,
                   edits, calls, wh, rvars>>

\* case <-w.done: if timer != nil { timer.Stop() }; return
LoopSeesDone ==
    /\ wl.loop = "running"
    /\ wl.done
    /\ timers' = StopTimer(timers, timer)
    /\ wl' = [wl EXCEPT !.loop = "returned"]
    /\ UNCHANGED <<log, store, lastSync, now, th, hs, faults, done, evq, timer,
                   edits, calls, wh, rvars>>

\* case event, ok := <-w.watcher.Events (or err, ok := <-w.watcher.Errors)
\* on a closed channel: if !ok { return }
LoopSeesClosed ==
    /\ wl.loop = "running"
    /\ wl.closed
    /\ wl' = [wl EXCEPT !.loop = "returned"]
    /\ UNCHANGED <<log, store, lastSync, now, th, hs, faults, done, evq, timers, timer,
                   edits, calls, wh, rvars>>

NextStop ==
    \/ \E e \in EventSamples : FsEvent(e)
    \/ WatcherRecv
    \/ TimerFire
    \/ Tick
    \/ CallbackStep
    \/ StopCloseDone
    \/ StopCloseWatcher
    \/ LoopSeesDone
    \/ LoopSeesClosed

SpecStop == InitWatch /\ [][NextStop]_vars

\* ------------------------------------- the TraceWatcher (SpecTrace)
\* The directory watcher and the daemon's callback, appendTraceInbox.
ProjectRoot == <<"proj">>

TraceNames == {"a.zip", "b.zip"}

TraceOps == {"create", "write", "remove"}

\* An event of fsnotify on a file of the results directory: its absolute path
\* (as path elements) and its operation.
TraceEv(name, op) == [name |-> ProjectRoot \o <<"test-results", name>>, op |-> op]

\* event.Op&(fsnotify.Create|fsnotify.Write) != 0
TraceQualifies(ev) == ev.op \in {"create", "write"}

\* filepath.Rel(projectRoot, filePath) for a path under the root.
Rel(root, path) == SubSeq(path, Len(root) + 1, Len(path))

\* The entry appendTraceInbox marshals.
InboxEntry(path, ts) ==
    [path |-> Rel(ProjectRoot, path), ts |-> ts, source |-> "watcher",
     status |-> "pending"]

\* Mutant: the inbox is opened with O_TRUNC.
InboxRewritten(inbox, entry) == <<entry>>

\* os.OpenFile(inboxPath, O_CREATE|O_WRONLY|O_APPEND), f.Write(data + "\n")
InboxAppended(inbox, entry) == Append(inbox, entry)

\* fsnotify delivers an event of the directory.
TraceEvent(ev) ==
    /\ wl.tr.n < MaxTraceEvents
    /\ ~wl.tr.closed
    /\ wl' = [wl EXCEPT !.tr.evq = Append(@, ev), !.tr.n = @ + 1]
    /\ UNCHANGED <<log, store, lastSync, now, th, hs, faults, done, wvars, dm, cn>>

\* TraceWatcher.Start: case event, ok := <-t.watcher.Events with ok: the
\* callback runs in the loop, once, for a create or write; appendTraceInbox
\* prints its failures and returns.
TraceRecv ==
    LET ev == Head(wl.tr.evq) IN
    /\ wl.tr.loop = "running"
    /\ wl.tr.evq # <<>>
    /\ \E f \in IF TraceQualifies(ev) THEN FaultOpts({"inboxopen", "inboxwrite"})
                ELSE {"none"} :
        /\ faults' = IF f = "none" THEN faults ELSE faults + 1
        /\ wl' = IF ~TraceQualifies(ev) THEN [wl EXCEPT !.tr.evq = Tail(@)]
                 ELSE IF f # "none"
                 THEN [wl EXCEPT !.tr.evq = Tail(@), !.tr.calls = @ + 1, !.tr.want = @ + 1]
                 ELSE [wl EXCEPT !.tr.evq = Tail(@), !.tr.calls = @ + 1, !.tr.want = @ + 1,
                                 !.tr.inbox = InboxAppended(@, InboxEntry(ev.name, now)),
                                 !.tr.got = Append(@, [name |-> ev.name, ts |-> now])]
    /\ UNCHANGED <<log, store, lastSync, now, th, hs, done, wvars, dm, cn>>

\* Time passes.
TraceTick ==
    /\ now < MaxTime
    /\ now' = now + 1
    /\ UNCHANGED <<log, store, lastSync, th, hs, faults, done, wvars, dvars>>

\* TraceWatcher.Stop: close(t.done)
TraceStopCloseDone ==
    /\ wl.tr.stop = "none"
    /\ wl' = [wl EXCEPT !.tr.stop = "closing", !.tr.done = TRUE]
    /\ UNCHANGED <<log, store, lastSync, now, th, hs, faults, done, wvars, dm, cn>>

\* TraceWatcher.Stop: t.watcher.Close() closes Events and Errors; what is
\* still in the channel is dropped.
TraceStopCloseWatcher ==
    /\ wl.tr.stop = "closing"
    /\ wl' = [wl EXCEPT !.tr.stop = "returned", !.tr.closed = TRUE, !.tr.evq = <<>>]
    /\ UNCHANGED <<log, store, lastSync, now, th, hs, faults, done, wvars, dm, cn>>

\* TraceWatcher.Start: case <-t.done, or !ok on Events: return. (With Errors
\* closed its case is ready too, and taking it only goes round the loop.)
TraceLoopReturns ==
    /\ wl.tr.loop = "running"
    /\ wl.tr.done \/ wl.tr.closed
    /\ wl' = [wl EXCEPT !.tr.loop = "returned"]
    /\ UNCHANGED <<log, store, lastSync, now, th, hs, faults, done, wvars, dm, cn>>

\* An inbox entry written by an earlier run.
OldEntry == InboxEntry(ProjectRoot \o <<"test-results", "old.zip">>, 0)

InitTrace ==
    /\ log = NoFile
    /\ store = EmptyStore
    /\ lastSync = 0
    /\ now = 1
    /\ th = [p \in Procs |-> IdleThread]
    /\ hs = [p \in Procs |-> IdleHistory]
    /\ faults = 0
    /\ done = <<>>
    /\ evq = <<>>
    /\ timers = {}
    /\ timer = 0
    /\ edits = 0
    /\ calls = 0
    /\ wh = IdleWatch
    /\ dm = RunningDaemon
    /\ cn = NoConns
    /\ \E o \in {<<>>, <<OldEntry>>} :
          wl = [LoopRunning EXCEPT !.tr.inbox = o, !.tr.old = o]

NextTrace ==
    \/ \E nm \in TraceNames, op \in TraceOps : TraceEvent(TraceEv(nm, op))
    \/ TraceRecv
    \/ TraceTick
    \/ TraceStopCloseDone
    \/ TraceStopCloseWatcher
    \/ TraceLoopReturns

SpecTrace == InitTrace /\ [][NextTrace]_vars

\* ------------------------------------------------------ the daemon (Spec)
\* The running daemon after StartDaemon's first import: the ticker of
\* syncLoop exports, the Watcher's callback imports, RPC requests do either,
\* and the external command surface replaces the log.
DaemonLog == FileOf(<<LineB>>)

EditContents == {FileOf(<<LineA2, LineB>>)}

\* The external command surface writes the log (by an atomic replacement).
ExternalEdit(c) ==
    /\ edits < MaxEdits
    /\ Len(evq) < MaxEvents
    /\ c.lines # log.lines
    /\ log' = Touch(c)
    /\ edits' = edits + 1
    /\ evq' = Append(evq, Ev(FileName, {"create"}))
    /\ UNCHANGED <<store, lastSync, now, th, hs, faults, done, timers, timer, calls, wh, dvars>>

\* The daemon reads the clock for lastSync and for the debounce timer only:
\* time is let pass while a timer is armed.
DaemonTick == timers # {} /\ Tick

\* syncLoop: case <-ticker.C
TickerFire ==
    /\ calls < MaxCalls
    /\ CallExport("ticker")
    /\ hs' = [hs EXCEPT !["ticker"] = IdleHistory]
    /\ calls' = calls + 1
    /\ UNCHANGED <<done, evq, timers, timer, edits, wh, dvars>>

\* handleRequest: "sync" exports, "import" imports.
HandleRequest(method) ==
    /\ calls < MaxCalls
    /\ IF method = "sync" THEN CallExport("rpc") ELSE CallImport("rpc")
    /\ hs' = [hs EXCEPT !["rpc"] = IdleHistory]
    /\ calls' = calls + 1
    /\ UNCHANGED <<done, evq, timers, timer, edits, wh, dvars>>

\* A step of a call; a rename into place shows in the watched directory.
DaemonStep(p) ==
    /\ th[p].pc = "exp_rename" => Len(evq) < MaxEvents
    /\ SyncerStep(p)
    /\ evq' = IF th[p].pc = "exp_rename" /\ th'[p].ret = "ok"
              THEN Append(evq, Ev(FileName, {"create"}))
              ELSE evq
    /\ UNCHANGED <<done, timers, timer, edits, calls, wh, dvars>>

Init ==
    /\ log = DaemonLog
    /\ store = UpsertTanda(EmptyStore, TandaOfLine(LineB))
    /\ lastSync = 1
    /\ now = 1
    /\ th = [p \in Procs |-> IdleThread]
    /\ hs = [p \in Procs |-> IdleHistory]
    /\ faults = 0
    /\ done = <<>>
    /\ evq = <<>>
    /\ timers = {}
    /\ timer = 0
    /\ edits = 0
    /\ calls = 0
    /\ wh = IdleWatch
    /\ RestIdle

Next ==
    \/ \E c \in EditContents : ExternalEdit(c)
    \/ WatcherRecv
    \/ TimerFire
    \/ DaemonTick
    \/ TickerFire
    \/ \E method \in {"sync", "import"} : HandleRequest(method)
    \/ \E p \in Procs : DaemonStep(p)

Spec == Init /\ [][Next]_vars

\* --------------------------------------- Syncer.NeedsSync (SpecNeeds)
\* Mutant: !ModTime().Before(lastSync) in the place of After.
NeedsSyncNotBefore(f, ls) == f.exists /\ f.mtime >= ls

\* NeedsSync: os.Stat, IsNotExist, info.ModTime().After(s.lastSync).
NeedsSync(f, ls) == f.exists /\ f.mtime > ls

\* A call of NeedsSync by the caller of the other operations, between two of
\* them; os.Stat may fail for another reason than a missing file.
CallNeedsSync ==
    /\ Len(done) < MaxOps
    /\ th["rpc"].pc = "idle"
    /\ \E f \in FaultOpts({"stat"}) :
        /\ faults' = IF f = "none" THEN faults ELSE faults + 1
        /\ done' = Append(done,
               [op |-> "needsSync",
                ret |-> IF f = "stat" THEN "err"
                        ELSE IF NeedsSync(log, lastSync) THEN "true" ELSE "false",
                flt |-> {f} \ {"none"},
                before |-> store, after |-> store, logAfter |-> log])
    /\ UNCHANGED <<log, store, lastSync, now, th, hs, wvars, dvars>>

\* Something else than the Syncer writes the log: new content, or the same
\* content written again.
LogWritten(c) ==
    /\ edits < MaxEdits
    /\ log' = Touch(c)
    /\ edits' = edits + 1
    /\ UNCHANGED <<store, lastSync, now, th, hs, faults, done, evq, timers, timer, calls, wh, dvars>>

\* The log is removed.
LogRemoved ==
    /\ edits < MaxEdits
    /\ log.exists
    /\ log' = NoFile
    /\ edits' = edits + 1
    /\ UNCHANGED <<store, lastSync, now, th, hs, faults, done, evq, timers, timer, calls, wh, dvars>>

InitNeeds ==
    /\ log \in {NoFile, FileOf(<<LineB>>)}
    /\ store \in {EmptyStore, UpsertTanda(EmptyStore, TandaA)}
    /\ lastSync = 0
    /\ now = 1
    /\ th = [p \in Procs |-> IdleThread]
    /\ hs = [p \in Procs |-> IdleHistory]
    /\ faults = 0
    /\ done = <<>>
    /\ evq = <<>>
    /\ timers = {}
    /\ timer = 0
    /\ edits = 0
    /\ calls = 0
    /\ wh = IdleWatch
    /\ RestIdle

NextNeeds ==
    \/ SyncCall
    \/ SyncStep
    \/ CallNeedsSync
    \/ \E c \in {DaemonLog} \cup EditContents : LogWritten(c)
    \/ LogRemoved
    \/ Tick

SpecNeeds == InitNeeds /\ [][NextNeeds]_vars

\* ------------------------------------------- the daemon's life (SpecLife)
\* StartDaemon on the main goroutine, the signal goroutine that runs
\* Shutdown, syncLoop's exports, and the end of the process.
\* The element after x in a sequence without repetition.
NextIn(seq, x) == seq[(CHOOSE i \in 1..Len(seq) : seq[i] = x) + 1]

\* Mutant: the database is opened before the socket is looked for.
StartStepsOpenFirst ==
    <<"parse", "open", "stat", "import", "importing", "listen", "pid", "lock", "watch",
      "notify", "spawn", "accept">>

\* Mutant: the accept loop is entered before the markers are written.
StartStepsAcceptEarly ==
    <<"parse", "stat", "open", "import", "importing", "listen", "notify", "spawn",
      "accept", "pid", "lock", "watch">>

\* StartDaemon, statement by statement, up to acceptConnections.
StartSteps ==
    <<"parse", "stat", "open", "import", "importing", "listen", "pid", "lock", "watch",
      "notify", "spawn", "accept">>

\* Mutant: the listener is closed before the watchers are stopped.
ShutdownStepsListenerFirst ==
    <<"closeDone", "closeListener", "stopWatcher", "stopTrace", "closeDb",
      "rmSock", "rmPid", "rmLock", "exit", "exited">>

\* Mutant: the Store is closed before the listener.
ShutdownStepsDbFirst ==
    <<"closeDone", "stopWatcher", "stopTrace", "closeDb", "closeListener",
      "rmSock", "rmPid", "rmLock", "exit", "exited">>

\* Daemon.Shutdown, statement by statement.
ShutdownSteps ==
    <<"closeDone", "stopWatcher", "stopTrace", "closeListener", "closeDb",
      "rmSock", "rmPid", "rmLock", "exit", "exited">>

Alive == dm.exit = "none"

\* StartDaemon returns an error: main exits with status 1.
Fail(d, msg) == [d EXCEPT !.exit = "1", !.err = msg]

\* listener.Close() of a listener made by net.Listen("unix", ...) also
\* unlinks the socket file.
CloseListener(d) == [d EXCEPT !.listening = FALSE, !.sock = FALSE]

\* close(d.done): closing a closed channel panics.
CloseDone(d) ==
    IF d.doneClosed THEN [d EXCEPT !.exit = "panic"] ELSE [d EXCEPT !.doneClosed = TRUE]

\* Mutant: a failed Accept raises the stop signal itself.
AcceptFailureShutsDown(d) == CloseDone(d)

\* Mutant: a failed Accept ends the accept loop.
AcceptFailureReturns(d) == [d EXCEPT !.main = "returned", !.exit = "0"]

\* acceptConnections with Accept failing and d.done open: print, continue.
AcceptFailure(d) == [d EXCEPT !.logged = @ + 1]

\* os.WriteFile fails: in OpenFile (the file is as it was) or in Write or
\* Close after OpenFile created the file (the file exists, short).
WriteFileFailed(f, was) == IF f \in {"pidwrite", "lockwrite"} THEN TRUE ELSE was

\* One statement of StartDaemon before the accept loop (the first import is
\* StartImport and the Syncer's steps).
StartStep ==
    LET d == dm
        nxt == [d EXCEPT !.main = NextIn(StartSteps, d.main)]
    IN
    /\ Alive
    /\ d.main \notin {"import", "importing", "accept"}
    /\ \E f \in FaultOpts(CASE d.main = "open" -> {"dbopen"}
                            [] d.main = "listen" -> {"listen"}
                            [] d.main = "pid" -> {"pidfile", "pidwrite"}
                            [] d.main = "lock" -> {"lockfile", "lockwrite"}
                            [] d.main = "watch" -> {"watch"}
                            [] OTHER -> {}),
          tw \in IF d.main = "watch" THEN BOOLEAN ELSE {FALSE} :
        /\ faults' = IF f = "none" THEN faults ELSE faults + 1
        /\ dm' =
            CASE d.main = "parse" ->
                   IF d.interval = "bad" THEN Fail(d, "invalid interval") ELSE nxt
              [] d.main = "stat" ->
                   IF d.sock THEN Fail(d, "already running") ELSE nxt
              [] d.main = "open" ->
                   IF f # "none" THEN Fail(d, "failed to open database")
                   ELSE [nxt EXCEPT !.dbOpen = TRUE, !.dbfile = TRUE]
              [] d.main = "listen" ->
                   IF f # "none"
                   THEN Fail([d EXCEPT !.dbOpen = FALSE], "failed to create socket")
                   ELSE [nxt EXCEPT !.listening = TRUE, !.sock = TRUE]
              [] d.main = "pid" ->
                   IF f # "none"
                   THEN Fail([CloseListener(d) EXCEPT !.dbOpen = FALSE,
                                                      !.pid = WriteFileFailed(f, @)],
                             "failed to write PID file")
                   ELSE [nxt EXCEPT !.pid = TRUE]
              [] d.main = "lock" ->
                   IF f # "none"
                   THEN Fail([CloseListener(d) EXCEPT !.pid = FALSE, !.dbOpen = FALSE,
                                                      !.lock = WriteFileFailed(f, @)],
                             "failed to write lock file")
                   ELSE [nxt EXCEPT !.lock = TRUE]
              [] d.main = "watch" -> [nxt EXCEPT !.watcher = (f = "none"), !.trace = tw]
              [] d.main = "notify" -> [nxt EXCEPT !.sd = "wait"]
              [] d.main = "spawn" -> [nxt EXCEPT !.loop = "running"]
    /\ UNCHANGED <<log, store, lastSync, now, th, hs, done, wvars, wl, cn>>

\* Mutant: a failed startup import ends the start.
AfterImportFatal(d, ret) ==
    IF ret = "err" THEN Fail([d EXCEPT !.imp = ret, !.dbOpen = FALSE], "initial import failed")
    ELSE [d EXCEPT !.main = NextIn(StartSteps, "importing"), !.imp = ret]

\* The startup import has returned: an error is printed as a warning, and
\* StartDaemon goes on to net.Listen.
AfterImport(d, ret) == [d EXCEPT !.main = NextIn(StartSteps, "importing"), !.imp = ret]

\* "Do initial sync": syncer.ImportFromJSONL() on the main goroutine.
StartImport ==
    /\ Alive
    /\ dm.main = "import"
    /\ CallImport("main")
    /\ hs' = [hs EXCEPT !["main"] = IdleHistory]
    /\ dm' = [dm EXCEPT !.main = "importing", !.nimp = @ + 1]
    /\ UNCHANGED <<done, wvars, wl, cn>>

\* The first import has returned; its error is only printed.
StartImported ==
    /\ Alive
    /\ dm.main = "importing"
    /\ th["main"].pc = "idle"
    /\ dm' = AfterImport(dm, th["main"].ret)
    /\ UNCHANGED <<log, store, lastSync, now, th, hs, faults, done, wvars, wl, cn>>

\* ClearAll or GetAllTandas on a closed *sql.DB fails, and the call returns
\* the error.
DbClosedError(p) ==
    /\ th[p].pc \in {"imp_clear", "exp_getall"}
    /\ th' = [th EXCEPT ![p] = Return(@, "err")]
    /\ UNCHANGED <<log, store, lastSync, now, hs, faults>>

\* One turn of the import's scan loop on a closed *sql.DB: UpsertTanda
\* fails, which is a warning, and the loop goes on to the end of the log.
DbClosedScan(p) ==
    LET t == th[p]
        eof == t.pos > Len(t.file)
        d == IF eof THEN "eof" ELSE LineDisposition(t.file[t.pos])
    IN
    /\ t.pc = "imp_scan"
    /\ CASE d = "abort" ->
               /\ th' = [th EXCEPT ![p] = Return(@, "err")]
               /\ UNCHANGED <<lastSync, hs>>
          [] d = "eof" ->
               /\ th' = [th EXCEPT ![p] = Return(@, "ok")]
               /\ lastSync' = now
               /\ UNCHANGED hs
          [] d = "skip" ->
               /\ th' = [th EXCEPT ![p].pos = @ + 1]
               /\ UNCHANGED <<lastSync, hs>>
          [] d = "warn" ->
               /\ th' = [th EXCEPT ![p].pos = @ + 1]
               /\ hs' = [hs EXCEPT ![p].warn = @ + 1]
               /\ UNCHANGED lastSync
          [] d = "upsert" ->
               /\ th' = [th EXCEPT ![p].pos = @ + 1]
               /\ hs' = [hs EXCEPT ![p].warn = @ + 1, ![p].skipped = @ \cup {t.pos}]
               /\ UNCHANGED lastSync
    /\ UNCHANGED <<log, store, now, faults>>

\* A step of a Syncer call of the daemon, the Store open or closed.
LifeStep(p) ==
    /\ Alive
    /\ IF ~dm.dbOpen /\ th[p].pc \in {"imp_clear", "exp_getall"}
       THEN DbClosedError(p)
       ELSE IF ~dm.dbOpen /\ th[p].pc = "imp_scan"
       THEN DbClosedScan(p)
       ELSE SyncerStep(p)
    /\ UNCHANGED <<done, wvars, dvars>>

\* syncLoop: case <-ticker.C
LifeTicker ==
    /\ Alive
    /\ dm.loop = "running"
    /\ TickerFire

\* syncLoop: case <-d.done: return
LoopReturns ==
    /\ Alive
    /\ dm.loop = "running"
    /\ dm.doneClosed
    /\ th["ticker"].pc = "idle"
    /\ dm' = [dm EXCEPT !.loop = "returned"]
    /\ UNCHANGED <<log, store, lastSync, now, th, hs, faults, done, wvars, wl, cn>>

\* SIGINT or SIGTERM: before signal.Notify it ends the process; after, it is
\* put in sigChan (capacity 1) unless the channel is full.
Signal ==
    /\ Alive
    /\ dm.sigs < MaxSignals
    /\ dm' = IF dm.sd = "none" THEN [dm EXCEPT !.sigs = @ + 1, !.exit = "killed"]
             ELSE [dm EXCEPT !.sigs = @ + 1, !.sig = 1]
    /\ UNCHANGED <<log, store, lastSync, now, th, hs, faults, done, wvars, wl, cn>>

\* The signal goroutine: <-sigChan, then daemon.Shutdown()
SignalReceived ==
    /\ Alive
    /\ dm.sd = "wait"
    /\ dm.sig = 1
    /\ dm' = [dm EXCEPT !.sig = 0, !.sd = ShutdownSteps[1]]
    /\ UNCHANGED <<log, store, lastSync, now, th, hs, faults, done, wvars, wl, cn>>

\* One statement of Daemon.Shutdown.
ShutdownStep ==
    LET d == [dm EXCEPT !.sd = NextIn(ShutdownSteps, dm.sd), !.order = Append(@, dm.sd)] IN
    /\ Alive
    /\ dm.sd \notin {"none", "wait", "exited"}
    /\ dm' = CASE dm.sd = "closeDone" -> CloseDone(d)
               [] dm.sd = "closeListener" -> CloseListener(d)
               [] dm.sd = "closeDb" -> [d EXCEPT !.dbOpen = FALSE]
               [] dm.sd = "rmSock" -> [d EXCEPT !.sock = FALSE]
               [] dm.sd = "rmPid" -> [d EXCEPT !.pid = FALSE]
               [] dm.sd = "rmLock" -> [d EXCEPT !.lock = FALSE]
               [] dm.sd = "exit" -> [d EXCEPT !.exit = "0"]
               [] OTHER -> d
    /\ wl' = IF dm.sd = "stopWatcher" /\ dm.watcher
             THEN [wl EXCEPT !.stop = "returned", !.done = TRUE, !.closed = TRUE,
                             !.pending = timers # {}]
             ELSE IF dm.sd = "stopTrace" /\ dm.trace
             THEN [wl EXCEPT !.tr.stop = "returned", !.tr.done = TRUE,
                             !.tr.closed = TRUE, !.tr.evq = <<>>]
             ELSE wl
    /\ UNCHANGED <<log, store, lastSync, now, th, hs, faults, done, wvars, cn>>

\* acceptConnections: Accept fails, because the listener is closed or for
\* another reason. With d.done closed the loop returns, StartDaemon returns
\* nil and main ends: the process exits with status 0.
AcceptError ==
    /\ Alive
    /\ dm.main = "accept"
    /\ \E f \in IF dm.listening THEN FaultOpts({"accept"}) \ {"none"} ELSE {"none"} :
        /\ faults' = IF f = "none" THEN faults ELSE faults + 1
        /\ dm' = IF dm.doneClosed THEN [dm EXCEPT !.main = "returned", !.exit = "0"]
                 ELSE AcceptFailure(dm)
    /\ UNCHANGED <<log, store, lastSync, now, th, hs, done, wvars, wl, cn>>

\* The directory before the start: empty, or with the markers of a daemon.
InitLife ==
    /\ log \in {NoFile, DaemonLog}
    /\ store = UpsertTanda(EmptyStore, TandaA)
    /\ lastSync = 0
    /\ now = 1
    /\ th = [p \in Procs |-> IdleThread]
    /\ hs = [p \in Procs |-> IdleHistory]
    /\ faults = 0
    /\ done = <<>>
    /\ evq = <<>>
    /\ timers = {}
    /\ timer = 0
    /\ edits = 0
    /\ calls = 0
    /\ wh = IdleWatch
    /\ wl = LoopRunning
    /\ cn = NoConns
    /\ \E i \in {"ok", "bad"}, m \in BOOLEAN :
          dm = [DaemonSample EXCEPT !.interval = i, !.sock = m, !.pid = m, !.lock = m,
                                    !.dbfile = m, !.found = m]

NextLife ==
    \/ StartStep
    \/ StartImport
    \/ StartImported
    \/ \E p \in {"main", "ticker"} : LifeStep(p)
    \/ LifeTicker
    \/ LoopReturns
    \/ Signal
    \/ SignalReceived
    \/ ShutdownStep
    \/ AcceptError

SpecLife == InitLife /\ [][NextLife]_vars

\* The goroutine that runs Shutdown is scheduled.
SpecLifeFair == SpecLife /\ WF_vars(ShutdownStep)

\* --------------------------------------------- the RPC server (SpecRpc)
\* The running daemon's accept loop and one handleConnection goroutine per
\* connection; the peers send requests, garbage, or hang up.
Methods == {"ping", "sync", "import", "status", "bogus"}

Request(method, id) == [kind |-> "request", method |-> method, id |-> id]

Garbage == [kind |-> "garbage", method |-> "", id |-> 0]

HangUp == [kind |-> "eof", method |-> "", id |-> 0]

Sendable ==
    {Request(m, i) : m \in Methods, i \in 1..MaxId} \cup {Garbage, HangUp}

\* An RPCResponse: Result and Error are omitempty, "" stands for absent.
Resp(result, error, id) == [result |-> result, error |-> error, id |-> id]

\* Mutant: the response does not echo the id.
ResponseWithoutId(req, ret) ==
    Resp(IF req.method = "ping" THEN "pong" ELSE "", 
         IF req.method = "ping" THEN <<>> ELSE <<"error">>, 0)

\* Mutant: the default case does not name the method.
ResponseUnnamed(req, ret) ==
    CASE req.method = "ping" -> Resp("pong", <<>>, req.id)
      [] OTHER -> Resp("", <<"unknown method">>, req.id)

\* Mutant: sync and import answer success whatever the Syncer returned.
ResponseAlwaysOk(req, ret) ==
    CASE req.method = "ping" -> Resp("pong", <<>>, req.id)
      [] req.method = "sync" -> Resp("synced", <<>>, req.id)
      [] req.method = "import" -> Resp("imported", <<>>, req.id)
      [] req.method = "status" -> Resp("status", <<>>, req.id)
      [] OTHER -> Resp("", <<"unknown method", req.method>>, req.id)

\* time.ParseDuration of a string of numbers and units, in seconds.
ParseDuration(str) ==
    LET unit(u) == CASE u = "s" -> 1 [] u = "m" -> 60 [] u = "h" -> 3600
        part(k) == str[2 * k - 1] * unit(str[2 * k])
        sum[k \in 0..(Len(str) \div 2)] == IF k = 0 THEN 0 ELSE sum[k - 1] + part(k)
    IN  sum[Len(str) \div 2]

\* Duration.String(): seconds alone below a minute, else minutes and
\* seconds, with hours in front from an hour on.
DurationString(n) ==
    IF n < 60 THEN <<n, "s">>
    ELSE IF n < 3600 THEN <<n \div 60, "m", n % 60, "s">>
    ELSE <<n \div 3600, "h", (n % 3600) \div 60, "m", n % 60, "s">>

\* Mutant: os.Getppid() in the place of os.Getpid().
StatusWithParentPid(d) ==
    [running |-> TRUE, pid |-> d.ospid + 1, interval |-> DurationString(d.dur)]

\* handleRequest, case "status": the map it returns.
Status(d) == [running |-> TRUE, pid |-> d.ospid, interval |-> DurationString(d.dur)]

\* The response whose result is the status map: a result that is an object,
\* with the object's members in data.
StatusResponse(m, id) == [result |-> "status", error |-> <<>>, id |-> id, data |-> m]

\* handleRequest's response, ret being what the Syncer call returned.
Response(req, ret) ==
    CASE req.method = "ping" -> Resp("pong", <<>>, req.id)
      [] req.method = "sync" ->
           IF ret = "ok" THEN Resp("synced", <<>>, req.id)
           ELSE Resp("", <<"export failed">>, req.id)
      [] req.method = "import" ->
           IF ret = "ok" THEN Resp("imported", <<>>, req.id)
           ELSE Resp("", <<"import failed">>, req.id)
      [] req.method = "status" -> StatusResponse(Status(dm), req.id)
      [] OTHER -> Resp("", <<"unknown method", req.method>>, req.id)

\* Mutant: a decode error takes every connection down.
AfterDecodeErrorAll(tbl, c, why) ==
    [x \in Conns |-> IF tbl[x].st = "open"
                     THEN [tbl[x] EXCEPT !.st = "closed", !.why = why] ELSE tbl[x]]

\* handleConnection returns after a Decode error: defer conn.Close().
AfterDecodeError(tbl, c, why) == [tbl EXCEPT ![c].st = "closed", ![c].why = why]

\* The requests sent so far on all connections.
Sent == LET k(c) == Len(cn[c].inq) + Len(cn[c].got) + (IF cn[c].why \in {"decode", "eof"} THEN 1 ELSE 0)
        IN  k("rpc") + k("rpc2")

\* acceptConnections: Accept returns a connection; go d.handleConnection(conn)
Accept(c) ==
    /\ Alive
    /\ dm.main = "accept"
    /\ dm.listening
    /\ cn[c].st = "none"
    /\ cn' = [cn EXCEPT ![c].st = "open",
                        ![c].late = \E x \in Conns : cn[x].why = "decode"]
    /\ UNCHANGED <<log, store, lastSync, now, th, hs, faults, done, wvars, wl, dm>>

\* The peer writes to the connection, or closes its end.
ClientSend(c, item) ==
    /\ cn[c].st = "open"
    /\ Sent < MaxReqs
    /\ (IF cn[c].inq = <<>> THEN TRUE ELSE cn[c].inq[Len(cn[c].inq)].kind = "request")
    /\ cn' = [cn EXCEPT ![c].inq = Append(@, item)]
    /\ UNCHANGED <<log, store, lastSync, now, th, hs, faults, done, wvars, wl, dm>>

\* decoder.Decode(&req) and the start of handleRequest: an error ends the
\* handler; sync and import call the Syncer; the other cases are answered
\* by HandleRespond.
HandleDecode(c) ==
    LET item == Head(cn[c].inq) IN
    /\ Alive
    /\ cn[c].st = "open"
    /\ cn[c].cur = <<>>
    /\ cn[c].inq # <<>>
    /\ IF item.kind # "request"
       THEN /\ cn' = AfterDecodeError([cn EXCEPT ![c].inq = Tail(@)], c,
                                      IF item.kind = "eof" THEN "eof" ELSE "decode")
            /\ UNCHANGED <<th, hs>>
       ELSE /\ cn' = [cn EXCEPT ![c].inq = Tail(@), ![c].cur = <<item>>,
                                ![c].got = Append(@, item),
                                ![c].n = IF item.method \in {"sync", "import"} THEN 1 ELSE 0]
            /\ IF item.method = "sync" THEN CallExport(c) /\ hs' = [hs EXCEPT ![c] = IdleHistory]
               ELSE IF item.method = "import"
               THEN CallImport(c) /\ hs' = [hs EXCEPT ![c] = IdleHistory]
               ELSE UNCHANGED <<th, hs>>
    /\ UNCHANGED <<log, store, lastSync, now, faults, done, wvars, wl, dm>>

\* The rest of handleRequest and encoder.Encode(resp); an Encode error ends
\* the handler.
HandleRespond(c) ==
    LET req == cn[c].cur[1] IN
    /\ Alive
    /\ cn[c].st = "open"
    /\ cn[c].cur # <<>>
    /\ th[c].pc = "idle"
    /\ \E f \in FaultOpts({"encode"}) :
        /\ faults' = IF f = "none" THEN faults ELSE faults + 1
        /\ cn' = IF f = "none"
                 THEN [cn EXCEPT ![c].cur = <<>>,
                                 ![c].out = Append(@, Response(req, th[c].ret)),
                                 ![c].ran = Append(@, [n |-> cn[c].n, op |-> th[c].op,
                                                       ret |-> th[c].ret])]
                 ELSE [cn EXCEPT ![c].cur = <<>>, ![c].st = "closed", ![c].why = "encode"]
    /\ th' = [th EXCEPT ![c] = IdleThread]
    /\ UNCHANGED <<log, store, lastSync, now, hs, done, wvars, wl, dm>>

\* A step of the Syncer call a handler is in.
HandleStep(c) ==
    /\ Alive
    /\ SyncerStep(c)
    /\ UNCHANGED <<done, wvars, dvars>>

InitRpc ==
    /\ log = DaemonLog
    /\ store = UpsertTanda(EmptyStore, TandaOfLine(LineB))
    /\ lastSync = 1
    /\ now = 1
    /\ th = [p \in Procs |-> IdleThread]
    /\ hs = [p \in Procs |-> IdleHistory]
    /\ faults = 0
    /\ done = <<>>
    /\ evq = <<>>
    /\ timers = {}
    /\ timer = 0
    /\ edits = 0
    /\ calls = 0
    /\ wh = IdleWatch
    /\ wl = LoopRunning
    /\ dm = RunningDaemon
    /\ cn = NoConns

NextRpc ==
    \/ \E c \in Conns : Accept(c)
    \/ \E c \in Conns, item \in Sendable : ClientSend(c, item)
    \/ \E c \in Conns : HandleDecode(c)
    \/ \E c \in Conns : HandleRespond(c)
    \/ \E c \in Conns : HandleStep(c)

SpecRpc == InitRpc /\ [][NextRpc]_vars

\* ------------------------------- the daemon's status (SpecStatus)
\* The RPC server of daemons started with different intervals, as
\* different processes.
IntervalSamples == {<<30, "s">>, <<60, "s">>, <<1, "m", 0, "s">>, <<90, "m">>}

PidSamples == {101, 202}

InitStatus ==
    /\ log = DaemonLog
    /\ store = UpsertTanda(EmptyStore, TandaOfLine(LineB))
    /\ lastSync = 1
    /\ now = 1
    /\ th = [p \in Procs |-> IdleThread]
    /\ hs = [p \in Procs |-> IdleHistory]
    /\ faults = 0
    /\ done = <<>>
    /\ evq = <<>>
    /\ timers = {}
    /\ timer = 0
    /\ edits = 0
    /\ calls = 0
    /\ wh = IdleWatch
    /\ wl = LoopRunning
    /\ cn = NoConns
    /\ \E i \in IntervalSamples, p \in PidSamples :
          dm = [RunningDaemon EXCEPT !.ivl = i, !.dur = ParseDuration(i), !.ospid = p]

SpecStatus == InitStatus /\ [][NextRpc]_vars

\* ------------------------------- the daemon stopped (SpecCancel)
\* A running daemon with its loops and connection handlers, a signal, and
\* Shutdown.
CancelSendable == {Request("ping", 1), Request("sync", 2), HangUp}

\* The connection whose handler is followed.
CancelConns == {"rpc"}

\* A step of the Syncer call a handler is in, the Store open or closed.
CancelHandleStep(c) ==
    /\ cn[c].cur # <<>>
    /\ LifeStep(c)

\* Watcher.Start returns.
CancelWatcherReturns ==
    /\ Alive
    /\ dm.watcher
    /\ LoopSeesDone \/ LoopSeesClosed

\* TraceWatcher.Start returns.
CancelTraceReturns ==
    /\ Alive
    /\ dm.trace
    /\ TraceLoopReturns

\* The daemon in its accept loop, both watchers started.
InitCancel ==
    /\ log = DaemonLog
    /\ store = UpsertTanda(EmptyStore, TandaOfLine(LineB))
    /\ lastSync = 1
    /\ now = 1
    /\ th = [p \in Procs |-> IdleThread]
    /\ hs = [p \in Procs |-> IdleHistory]
    /\ faults = 0
    /\ done = <<>>
    /\ evq = <<>>
    /\ timers = {}
    /\ timer = 0
    /\ edits = 0
    /\ calls = 0
    /\ wh = IdleWatch
    /\ wl = LoopRunning
    /\ dm = RunningDaemon
    /\ cn = NoConns

NextCancel ==
    \/ \E c \in CancelConns : Accept(c)
    \/ \E c \in CancelConns, item \in CancelSendable : ClientSend(c, item)
    \/ \E c \in CancelConns : HandleDecode(c)
    \/ \E c \in CancelConns : HandleRespond(c)
    \/ \E c \in CancelConns : CancelHandleStep(c)
    \/ LifeTicker
    \/ LifeStep("ticker")
    \/ LoopReturns
    \/ CancelWatcherReturns
    \/ CancelTraceReturns
    \/ Signal
    \/ SignalReceived
    \/ ShutdownStep
    \/ AcceptError

SpecCancel == InitCancel /\ [][NextCancel]_vars

\* ------------------------- Syncer calls across Shutdown (SpecClose)
\* A running daemon whose ticker and whose connection handler call the
\* Syncer while a signal arrives and Shutdown runs.
\* handleRequest in a connection's handler: "sync" or "import".
CloseRequest(method) ==
    /\ Alive
    /\ HandleRequest(method)

InitClose ==
    /\ log = FileOf(<<LineA2, LineB>>)
    /\ store = UpsertTanda(UpsertTanda(EmptyStore, TandaOfLine(LineA2)), TandaOfLine(LineB))
    /\ lastSync = 1
    /\ now = 1
    /\ th = [p \in Procs |-> IdleThread]
    /\ hs = [p \in Procs |-> IdleHistory]
    /\ faults = 0
    /\ done = <<>>
    /\ evq = <<>>
    /\ timers = {}
    /\ timer = 0
    /\ edits = 0
    /\ calls = 0
    /\ wh = IdleWatch
    /\ wl = LoopRunning
    /\ dm = RunningDaemon
    /\ cn = NoConns

NextClose ==
    \/ \E method \in {"sync", "import"} : CloseRequest(method)
    \/ \E p \in {"rpc", "ticker"} : LifeStep(p)
    \/ LifeTicker
    \/ LoopReturns
    \/ Signal
    \/ SignalReceived
    \/ ShutdownStep
    \/ AcceptError

SpecClose == InitClose /\ [][NextClose]_vars

\* ------------------------------- several starts in one directory (SpecDir)
\* The processes `tandas daemon start` is run as, one after or beside the
\* other, in one directory. Of each the position in StartDaemon and in
\* Shutdown is kept, and of each file of the directory the process that
\* created it (0: the file does not exist). The Store and the log are left
\* out: db.Open and the import are steps that touch no marker.
Insts == 1..MaxInst

NoProc ==
    [pc |-> "idle", sd |-> "none", exit |-> "none", err |-> "",
     up |-> FALSE,         \* the process holds an open listener
     late |-> 0]           \* the crashed process whose socket was there at the start (history)

EmptyDir == [sock |-> 0, pid |-> 0, lock |-> 0, ps |-> [i \in Insts |-> NoProc]]

Live(i) == dm.ps[i].pc # "idle" /\ dm.ps[i].exit = "none"

Crashed(i) == dm.ps[i].exit = "killed"

\* StartDaemon returns an error in process i.
DirFail(d, i, msg) == [d EXCEPT !.ps[i].exit = "1", !.ps[i].err = msg]

\* listener.Close() in process i: the UnixListener unlinks the path it was
\* bound to, whatever file is there now.
DirCloseListener(d, i) == [d EXCEPT !.ps[i].up = FALSE, !.sock = 0]

\* os.Stat(socketPath) returns no error.
SocketFound(d) == d.sock # 0

\* The process starts; time.ParseDuration(intervalStr) is its first statement.
DirStart(i) ==
    /\ dm.ps[i].pc = "idle"
    /\ \E iv \in {"ok", "bad"} :
          LET p == [NoProc EXCEPT !.pc = IF iv = "ok" THEN "stat" ELSE "parse",
                                  !.late = IF dm.sock # 0 /\ Crashed(dm.sock)
                                           THEN dm.sock ELSE 0]
              d == [dm EXCEPT !.ps[i] = p]
          IN  dm' = IF iv = "ok" THEN d ELSE DirFail(d, i, "invalid interval")
    /\ UNCHANGED <<log, store, lastSync, now, th, hs, faults, done, wvars, wl, cn>>

\* One statement of StartDaemon in process i, from the socket check on.
DirStartStep(i) ==
    LET pc == dm.ps[i].pc
        nxt == [dm EXCEPT !.ps[i].pc = NextIn(StartSteps, pc)]
    IN
    /\ Live(i)
    /\ pc \notin {"parse", "accept"}
    /\ \E f \in FaultOpts(CASE pc = "open" -> {"dbopen"}
                            [] pc = "listen" -> {"listen"}
                            [] pc = "pid" -> {"pidfile", "pidwrite"}
                            [] pc = "lock" -> {"lockfile", "lockwrite"}
                            [] OTHER -> {}) :
        /\ faults' = IF f = "none" THEN faults ELSE faults + 1
        /\ dm' =
            CASE pc = "stat" ->
                   IF SocketFound(dm) THEN DirFail(dm, i, "already running") ELSE nxt
              [] pc = "open" ->
                   IF f # "none" THEN DirFail(dm, i, "failed to open database") ELSE nxt
              [] pc = "listen" ->
                   \* bind fails with EADDRINUSE when the path exists
                   IF f # "none" \/ dm.sock # 0
                   THEN DirFail(dm, i, "failed to create socket")
                   ELSE [nxt EXCEPT !.sock = i, !.ps[i].up = TRUE]
              [] pc = "pid" ->
                   IF f # "none"
                   THEN DirFail([DirCloseListener(dm, i) EXCEPT
                                    !.pid = IF WriteFileFailed(f, FALSE) THEN i ELSE @],
                                i, "failed to write PID file")
                   ELSE [nxt EXCEPT !.pid = i]
              [] pc = "lock" ->
                   IF f # "none"
                   THEN DirFail([DirCloseListener(dm, i) EXCEPT
                                    !.pid = 0,
                                    !.lock = IF WriteFileFailed(f, FALSE) THEN i ELSE @],
                                i, "failed to write lock file")
                   ELSE [nxt EXCEPT !.lock = i]
              [] pc = "notify" -> [nxt EXCEPT !.ps[i].sd = "wait"]
              [] OTHER -> nxt
    /\ UNCHANGED <<log, store, lastSync, now, th, hs, done, wvars, wl, cn>>

\* SIGINT or SIGTERM reaches the signal goroutine of process i, which calls
\* Shutdown.
DirSignal(i) ==
    /\ Live(i)
    /\ dm.ps[i].sd = "wait"
    /\ dm' = [dm EXCEPT !.ps[i].sd = ShutdownSteps[1]]
    /\ UNCHANGED <<log, store, lastSync, now, th, hs, faults, done, wvars, wl, cn>>

\* One statement of Daemon.Shutdown in process i.
DirShutdownStep(i) ==
    LET sd == dm.ps[i].sd
        d == [dm EXCEPT !.ps[i].sd = NextIn(ShutdownSteps, sd)]
    IN
    /\ Live(i)
    /\ sd \notin {"none", "wait", "exited"}
    /\ dm' = CASE sd = "closeListener" -> DirCloseListener(d, i)
               [] sd = "rmSock" -> [d EXCEPT !.sock = 0]
               [] sd = "rmPid" -> [d EXCEPT !.pid = 0]
               [] sd = "rmLock" -> [d EXCEPT !.lock = 0]
               [] sd = "exit" -> [d EXCEPT !.ps[i].exit = "0"]
               [] OTHER -> d
    /\ UNCHANGED <<log, store, lastSync, now, th, hs, faults, done, wvars, wl, cn>>

\* acceptConnections of process i returns once Shutdown has closed the
\* listener; StartDaemon returns nil and the process ends.
DirMainReturns(i) ==
    /\ Live(i)
    /\ dm.ps[i].pc = "accept"
    /\ ~dm.ps[i].up
    /\ dm' = [dm EXCEPT !.ps[i].pc = "returned", !.ps[i].exit = "0"]
    /\ UNCHANGED <<log, store, lastSync, now, th, hs, faults, done, wvars, wl, cn>>

\* Process i is killed (SIGKILL, a crash, a signal before signal.Notify):
\* nothing of Shutdown runs and the files stay.
DirCrash(i) ==
    /\ Live(i)
    /\ dm' = [dm EXCEPT !.ps[i].exit = "killed", !.ps[i].up = FALSE]
    /\ UNCHANGED <<log, store, lastSync, now, th, hs, faults, done, wvars, wl, cn>>

InitDir ==
    /\ log = NoFile
    /\ store = EmptyStore
    /\ lastSync = 0
    /\ now = 1
    /\ th = [p \in Procs |-> IdleThread]
    /\ hs = [p \in Procs |-> IdleHistory]
    /\ faults = 0
    /\ done = <<>>
    /\ evq = <<>>
    /\ timers = {}
    /\ timer = 0
    /\ edits = 0
    /\ calls = 0
    /\ wh = IdleWatch
    /\ wl = LoopRunning
    /\ cn = NoConns
    /\ dm = EmptyDir

NextDir ==
    \E i \in Insts :
        \/ DirStart(i)
        \/ DirStartStep(i)
        \/ DirSignal(i)
        \/ DirShutdownStep(i)
        \/ DirMainReturns(i)
        \/ DirCrash(i)

SpecDir == InitDir /\ [][NextDir]_vars

\* ------------------------------------------------------------- claims
\* The call p made last has returned.
Returned(p, op) == th[p].pc = "idle" /\ th[p].op = op /\ th[p].ret # "none"

\* The content of a JSON column, null read as empty.
CollOf(c) == IF c.k = "array" THEN c.a ELSE <<>>

\* A row without its derived columns, collections compared by content.
NonDerived(r) ==
    [title |-> r.title, status |-> r.status, file |-> r.file,
     covers |-> CollOf(r.covers), depends_on |-> CollOf(r.depends_on),
     notes |-> CollOf(r.notes), run_history |-> CollOf(r.run_history),
     created_at |-> r.created_at, updated_at |-> r.updated_at]

\* The records of a Store, by id and non-derived field values.
Records(s) == {<<id, NonDerived(s[id])>> : id \in DOMAIN s}

NoNullColumn(s) ==
    \A id \in DOMAIN s :
        /\ s[id].covers.k = "array" /\ s[id].depends_on.k = "array"
        /\ s[id].notes.k = "array" /\ s[id].run_history.k = "array"

ObjectLines(ls) == {i \in 1..Len(ls) : ls[i].kind = "object"}

IdOfLine(line) == line.obj[1].id

MinOf(S) == CHOOSE x \in S : \A y \in S : x <= y

MaxOf(S) == CHOOSE x \in S : \A y \in S : x >= y

\* The lines of the opened log whose record reached the Store.
GoodLines(p) == ObjectLines(th[p].file) \ hs[p].skipped

\* C2: when ExportToJSONL returns an error, whatever the stage that failed, the
\* temporary file it created no longer exists and the log holds what it held
\* before the call.
C2_FailedExportLeavesNoTrace ==
    \A p \in Procs :
        (Returned(p, "export") /\ th[p].ret = "err")
            => (~th[p].tmp.exists /\ log = hs[p].startLog)

\* A rename failed after the temporary file was written in full, over an existing log.
C2_Witness ==
    \E p \in Procs :
        /\ Returned(p, "export") /\ th[p].ret = "err" /\ "rename" \in hs[p].flt
        /\ Len(th[p].tandas) > 0 /\ log.exists

\* C5 (as stated): an import that runs alone and succeeds leaves the Store
\* holding exactly the well-formed records of the log, each with the field
\* values of its line. Stated for runs with no injected failure.
C5_StoreIsTheLogsRecords ==
    \A p \in Procs :
        (Returned(p, "import") /\ th[p].ret = "ok" /\ hs[p].startLog.exists /\ hs[p].flt = {})
            => Records(store) =
                 {<<IdOfLine(th[p].file[i]), NonDerived(RowOf(TandaOfLine(th[p].file[i])))>> :
                      i \in ObjectLines(th[p].file)}

\* C5 (amended): an import that runs alone and succeeds leaves the Store
\* holding exactly one record per id among the well-formed lines whose upsert
\* succeeded (so no earlier record survives); the record has the field values
\* of the last such line of its id, except created_at, which is that of the
\* first such line.
C5_StoreIsLastLinePerId ==
    \A p \in Procs :
        (Returned(p, "import") /\ th[p].ret = "ok" /\ hs[p].startLog.exists)
            => LET F == th[p].file
                   G == GoodLines(p)
               IN  /\ DOMAIN store = {IdOfLine(F[i]) : i \in G}
                   /\ \A id \in DOMAIN store :
                        LET I == {i \in G : IdOfLine(F[i]) = id}
                            first == TandaOfLine(F[MinOf(I)])
                            last == TandaOfLine(F[MaxOf(I)])
                        IN  NonDerived(store[id]) =
                              NonDerived(RowOf([last EXCEPT !.CreatedAt = first.CreatedAt]))

\* Two lines of one id with different created_at were imported over a Store
\* that held a record the log does not have.
C5_Witness ==
    \E p \in Procs :
        /\ Returned(p, "import") /\ th[p].ret = "ok" /\ hs[p].flt = {}
        /\ "b" \in DOMAIN hs[p].startStore /\ "b" \notin DOMAIN store
        /\ \E i, j \in GoodLines(p) :
              /\ i < j /\ IdOfLine(th[p].file[i]) = IdOfLine(th[p].file[j])
              /\ TandaOfLine(th[p].file[i]).CreatedAt # TandaOfLine(th[p].file[j]).CreatedAt

C7_NoLogIsNoOp ==
    \A p \in Procs :
        Returned(p, "import")
            => /\ ~hs[p].startLog.exists
                    => (th[p].ret = "ok" /\ store = hs[p].startStore
                        /\ lastSync = hs[p].startSync)
               /\ "open" \in hs[p].flt
                    => (th[p].ret = "err" /\ store = hs[p].startStore)

\* An import found no log while the Store held records and lastSync was older than now.
C7_Witness ==
    \E p \in Procs :
        /\ Returned(p, "import") /\ ~hs[p].startLog.exists
        /\ store # EmptyStore /\ lastSync < now

\* C8: an export followed by an import, both successful and with nothing in
\* between, leaves the Store with the records it had: the same ids with the
\* same non-derived field values, and no collection column null.
C8_RoundTrip ==
    \A i \in 1..(Len(done) - 1) :
        (/\ done[i].op = "export" /\ done[i].ret = "ok" /\ done[i].flt = {}
         /\ done[i + 1].op = "import" /\ done[i + 1].ret = "ok" /\ done[i + 1].flt = {})
            => /\ Records(done[i + 1].after) = Records(done[i].before)
               /\ NoNullColumn(done[i + 1].after)

\* Two records went round, one with null collection columns and one with a
\* file, notes and a run history.
C8_Witness ==
    \E i \in 1..(Len(done) - 1) :
        /\ done[i].op = "export" /\ done[i].ret = "ok" /\ done[i].flt = {}
        /\ done[i + 1].op = "import" /\ done[i + 1].ret = "ok" /\ done[i + 1].flt = {}
        /\ DOMAIN done[i].before = {"a", "b"}
        /\ ~NoNullColumn(done[i].before)
        /\ done[i].before["a"].file # ""

\* C9: two imports in a row of an unchanged log, with no injected failure,
\* leave the same Store and return the same result.
C9_ImportIdempotent ==
    \A i \in 1..(Len(done) - 1) :
        (/\ done[i].op = "import" /\ done[i].flt = {}
         /\ done[i + 1].op = "import" /\ done[i + 1].flt = {}
         /\ done[i].logAfter = done[i + 1].logAfter)
            => (done[i + 1].after = done[i].after /\ done[i + 1].ret = done[i].ret)

\* Two imports of a log with a record replaced a Store that held other records.
C9_Witness ==
    \E i \in 1..(Len(done) - 1) :
        /\ done[i].op = "import" /\ done[i].ret = "ok" /\ done[i].flt = {}
        /\ done[i + 1].op = "import" /\ done[i + 1].ret = "ok" /\ done[i + 1].flt = {}
        /\ done[i].after # EmptyStore
        /\ done[i].after # done[i].before
        /\ DOMAIN done[i].before \ DOMAIN done[i].after # {}

\* The well-formed records of a log, by id and non-derived field values.
LogRecords(f) ==
    {<<IdOfLine(f.lines[i]), NonDerived(RowOf(TandaOfLine(f.lines[i])))>> :
        i \in ObjectLines(f.lines)}

\* Every line of an export's snapshot of the Store, in order.
CompleteExport(p) ==
    [exists |-> TRUE,
     lines |-> [i \in 1..Len(th[p].tandas) |-> LineOfTanda(th[p].tandas[i])],
     mtime |-> th[p].tmp.mtime]

\* Goroutine p takes a step of the call op.
StepOf(p, op) == th[p].op = op /\ th[p].pc # "idle" /\ th'[p] # th[p]

\* The call of goroutine p returns success in this step.
ReturnsOk(p) == th[p].pc # "idle" /\ th'[p].pc = "idle" /\ th'[p].ret = "ok"

\* C1: an export replaces the log atomically. No step of ExportToJSONL, failed
\* or not, with whatever else running, changes the log except its rename, and
\* the rename leaves the log holding every line of the export: a reader sees
\* the whole old content or the whole new content.
C1_ExportIsAtomic ==
    [][\A p \in Procs :
          StepOf(p, "export") =>
              \/ log' = log
              \/ /\ th[p].pc = "exp_rename" /\ ReturnsOk(p)
                 /\ log' = CompleteExport(p)]_vars

\* An export of two records has replaced a log that held something else.
C1_Witness ==
    \E p \in Procs :
        /\ Returned(p, "export") /\ th[p].ret = "ok"
        /\ Len(th[p].tandas) = 2
        /\ log.lines = <<LineOfTanda(th[p].tandas[1]), LineOfTanda(th[p].tandas[2])>>
        /\ log.lines # DaemonLog.lines
        /\ \A c \in EditContents : log.lines # c.lines

\* C3: with no external edit and no failed system call, whenever an import or
\* an export returns success while no other call is in flight, the Store
\* holds exactly the well-formed records of the log.
C3_QuiescentStoreMatchesLog ==
    [][\A p \in Procs :
          (/\ ReturnsOk(p)
           /\ \A q \in Procs \ {p} : th[q].pc = "idle"
           /\ edits = 0 /\ faults = 0)
              => Records(store') = LogRecords(log')]_vars

\* C4: once the external command surface has written the log, no export of
\* the daemon changes the records the log holds.
C4_ExternalEditNeverReverted ==
    [][\A p \in Procs :
          (edits > 0 /\ th[p].pc = "exp_rename" /\ ReturnsOk(p))
              => LogRecords(log') = LogRecords(log)]_vars

\* C10: a burst of qualifying events, each less than Debounce after the one
\* before, gets exactly one callback: never more than one, none before
\* Debounce has passed since the burst's last event, and one once it has.
C10_BurstGetsOneCallback ==
    /\ wh.n <= 1
    /\ wh.n = 1 => wh.at >= wh.lastEv + Debounce
    /\ (wh.lastEv > 0 /\ now > wh.lastEv + Debounce) => wh.n = 1

\* A burst of two events or more has had its callback.
C10_Witness == wh.size >= 2 /\ wh.n = 1 /\ wh.at = wh.lastEv + Debounce

\* C11: once Stop has been called with a debounce timer pending and the
\* event loop has returned, whichever select case made it return, the
\* callback is not invoked any more.
C11_NoCallbackAfterStop ==
    [][(wl.pending /\ wl.loop = "returned") => calls' = calls]_vars

\* The start has written nothing: the database was not opened, the first
\* import did not run, the Store and the markers are as they were found.
NothingWritten ==
    /\ ~dm.dbOpen /\ th["main"].op = "none"
    /\ store = UpsertTanda(EmptyStore, TandaA)
    /\ dm.sock = dm.found /\ dm.pid = dm.found /\ dm.lock = dm.found
    /\ dm.dbfile = dm.found

\* C12 (as stated): when the socket path exists at the start, the start
\* fails with the "already running" error and writes nothing.
C12_RefusedAsAlreadyRunning ==
    dm.found =>
        /\ NothingWritten
        /\ dm.exit = "1" => dm.err = "already running"

\* C12 (amended): when the socket path exists at the start, the start writes
\* nothing and fails: with "already running" if the interval parses, with
\* the interval's parse error if it does not.
C12_RefusedWithoutWrites ==
    dm.found =>
        /\ NothingWritten
        /\ dm.main \in {"parse", "stat"}
        /\ dm.exit \notin {"0", "panic"}
        /\ dm.exit = "1" =>
              dm.err = IF dm.interval = "ok" THEN "already running" ELSE "invalid interval"

\* A start was refused because the socket exists.
C12_Witness == dm.found /\ dm.exit = "1" /\ dm.err = "already running"

\* The lifecycle state of the daemon, read off the process.
LifeState(d) ==
    CASE d.exit # "none" -> "Stopped"
      [] d.sd \notin {"none", "wait"} -> "ShuttingDown"
      [] d.main = "accept" -> "Running"
      [] OTHER -> "Initializing"

Rank(st) ==
    CASE st = "Initializing" -> 1 [] st = "Running" -> 2
      [] st = "ShuttingDown" -> 3 [] OTHER -> 4

\* The response carries exactly one of result and error.
OneOfResultError(r) == (r.result # "") # (r.error # <<>>)

\* The handler of c is between requests, none lost to a failed Encode.
Served(c) == cn[c].cur = <<>> /\ cn[c].why # "encode"

\* C13: on every connection the responses written are, in order, those of
\* the requests decoded: the i-th response echoes the id of the i-th request
\* and carries exactly one of result and error, "pong" for a ping; a handler
\* between requests has written one response per request decoded, and one
\* working on a request has written one for each request before it. (The one
\* response an Encode error could not write is the only one missing.)
C13_OneResponsePerRequest ==
    \A c \in Conns :
        /\ Len(cn[c].out) <= Len(cn[c].got)
        /\ \A i \in 1..Len(cn[c].out) :
              /\ cn[c].out[i].id = cn[c].got[i].id
              /\ OneOfResultError(cn[c].out[i])
              /\ cn[c].got[i].method = "ping" =>
                    cn[c].out[i].result = "pong" /\ cn[c].out[i].error = <<>>
        /\ Served(c) => Len(cn[c].out) = Len(cn[c].got)
        /\ cn[c].cur # <<>> => Len(cn[c].out) = Len(cn[c].got) - 1

\* Two requests with different ids answered in order on one connection, the
\* first one a failure.
C13_Witness ==
    \E c \in Conns :
        /\ Len(cn[c].out) = 2
        /\ cn[c].got[1].id = 2 /\ cn[c].got[2].id = 1
        /\ cn[c].out[1].error # <<>> /\ cn[c].got[2].method = "ping"

\* The methods handleRequest knows.
Known == {"ping", "sync", "import", "status"}

\* The responses to unknown methods, and to the pings after them.
UnknownAnswered ==
    \A c \in Conns : \A i \in 1..Len(cn[c].out) :
        cn[c].got[i].method \notin Known =>
            /\ cn[c].out[i].result = ""
            /\ cn[c].out[i].error # <<>>
            /\ cn[c].out[i].error[Len(cn[c].out[i].error)] = cn[c].got[i].method
            /\ cn[c].out[i].id = cn[c].got[i].id
            /\ \A j \in (i + 1)..Len(cn[c].out) :
                  cn[c].got[j].method = "ping" => cn[c].out[j].result = "pong"

\* C14: the response to a request with an unknown method has no result, a
\* non-empty error naming the method, and the request's id; writing it leaves
\* the connection open, and a ping decoded after it is answered "pong".
C14_UnknownMethodKeepsConnection ==
    /\ []UnknownAnswered
    /\ [][\A c \in Conns :
             (Len(cn'[c].out) = Len(cn[c].out) + 1 /\ cn[c].cur[1].method \notin Known)
                => cn'[c].st = "open" /\ cn'[c].cur = <<>>]_vars

\* An unknown method answered with an error, then a ping answered on the
\* same connection.
C14_Witness ==
    \E c \in Conns :
        /\ Len(cn[c].out) = 2
        /\ cn[c].got[1].method = "bogus" /\ cn[c].out[1].error # <<>>
        /\ cn[c].got[2].method = "ping" /\ cn[c].out[2].result = "pong"

\* The handler of c meets a malformed payload in this step.
DecodeError(c) ==
    /\ cn[c].st = "open" /\ cn[c].cur = <<>> /\ cn[c].inq # <<>>
    /\ Head(cn[c].inq).kind = "garbage"
    /\ cn'[c].inq # cn[c].inq

\* C15: a decode error ends that connection's handler and nothing else: the
\* other connections are as they were (an open one stays open, with its
\* request in hand and its input), the daemon is as it was, Running with
\* its listener open and in the accept loop.
C15_DecodeErrorEndsOneConnection ==
    [][\A c \in Conns :
          DecodeError(c) =>
              /\ cn'[c].st = "closed"
              /\ \A x \in Conns \ {c} : cn'[x] = cn[x]
              /\ dm' = dm
              /\ LifeState(dm') = "Running" /\ dm'.listening /\ dm'.main = "accept"]_vars

\* A connection accepted after a decode error on the other one, its request
\* answered.
C15_Witness ==
    \E c \in Conns, x \in Conns :
        /\ cn[c].why = "decode" /\ cn[c].st = "closed"
        /\ cn[x].late /\ cn[x].st = "open" /\ Len(cn[x].out) = 1

\* C16: the response to a sync comes after exactly one call of the Syncer,
\* an ExportToJSONL, and its result is "synced" exactly if that call
\* returned success, an error and no result otherwise; likewise for import,
\* ImportFromJSONL and "imported".
C16_SyncAndImportAnswers ==
    \A c \in Conns : \A i \in 1..Len(cn[c].out) :
        LET req == cn[c].got[i]
            r == cn[c].out[i]
            did == cn[c].ran[i]
        IN  /\ req.method = "sync" =>
                  /\ did.n = 1 /\ did.op = "export"
                  /\ r.result = "synced" <=> did.ret = "ok"
                  /\ did.ret # "ok" => r.result = "" /\ r.error # <<>>
            /\ req.method = "import" =>
                  /\ did.n = 1 /\ did.op = "import"
                  /\ r.result = "imported" <=> did.ret = "ok"
                  /\ did.ret # "ok" => r.result = "" /\ r.error # <<>>

\* A sync answered "synced" and an import answered with an error.
C16_Witness ==
    \E c \in Conns, x \in Conns :
        /\ \E i \in 1..Len(cn[c].out) :
              cn[c].got[i].method = "sync" /\ cn[c].out[i].result = "synced"
        /\ \E i \in 1..Len(cn[x].out) :
              cn[x].got[i].method = "import" /\ cn[x].out[i].error # <<>>

\* C21: after a failed start the Store opened by the attempt is closed, its
\* listener is closed and the socket path removed, and no PID or lock marker
\* the attempt wrote is on disk (the directory holds the markers it held
\* before the attempt, no others).
C21_FailedStartReleasesAll ==
    dm.exit = "1" =>
        /\ ~dm.dbOpen /\ ~dm.listening
        /\ dm.sock = dm.found /\ dm.pid = dm.found /\ dm.lock = dm.found

\* C22: a PID or lock marker written by this instance exists, before the
\* instance has begun shutdown, only while the instance holds the bound
\* listening socket; and a start whose bind failed has written no marker.
\* (An instance ended by a signal it does not yet handle is left aside.)
C22_MarkersOnlyWhileBound ==
    /\ (dm.exit # "killed" /\ ~dm.found /\ (dm.pid \/ dm.lock) /\ dm.sd \in {"none", "wait"})
          => dm.listening /\ dm.sock
    /\ dm.err = "failed to create socket" => ~dm.pid /\ ~dm.lock

\* C23: the callback has run once for every create or write event received,
\* whatever the name, and the inbox is what it was at the start followed by
\* one entry {path, ts, source "watcher", status "pending"} for each event
\* whose append succeeded, in the order of the events.
C23_OneInboxEntryPerEvent ==
    LET t == wl.tr IN
    /\ t.calls = t.want
    /\ Len(t.inbox) = Len(t.old) + Len(t.got)
    /\ SubSeq(t.inbox, 1, Len(t.old)) = t.old
    /\ \A i \in 1..Len(t.got) :
          t.inbox[Len(t.old) + i] =
              [path |-> <<"test-results", t.got[i].name[Len(t.got[i].name)]>>,
               ts |-> t.got[i].ts, source |-> "watcher", status |-> "pending"]

\* Two events on different files appended after an old entry, and a third
\* whose append failed.
C23_Witness ==
    /\ wl.tr.old # <<>> /\ Len(wl.tr.got) = 2 /\ wl.tr.calls = 3
    /\ wl.tr.got[1].name # wl.tr.got[2].name

\* The columns that UpsertTanda's statement binds for record t.
Bound(t) ==
    [title |-> t.Title, status |-> t.Status, file |-> t.File,
     covers |-> MarshalStrs(t.Covers), depends_on |-> MarshalStrs(t.DependsOn),
     notes |-> MarshalNotes(t.Notes), run_history |-> MarshalRuns(t.RunHistory),
     created_at |-> t.CreatedAt, updated_at |-> t.UpdatedAt]

\* The columns of a row that are not derived.
Plain(r) ==
    [title |-> r.title, status |-> r.status, file |-> r.file,
     covers |-> r.covers, depends_on |-> r.depends_on,
     notes |-> r.notes, run_history |-> r.run_history,
     created_at |-> r.created_at, updated_at |-> r.updated_at]

\* The derived columns are those of the run history the row holds.
DerivedFresh(r) ==
    LET h == CollOf(r.run_history)
        n == Len(h)
    IN  /\ r.last_run_at = (IF n > 0 THEN h[n].ts ELSE 0)
        /\ r.last_run_result = (IF n > 0 THEN h[n].result ELSE "")
        /\ r.flakiness_score = calculateFlakiness(UnmarshalRuns(r.run_history))

\* This step is a call of UpsertTanda.
UpsertStep == done' # <<>> /\ done'[1].op = "upsert" /\ (done' # done \/ store' # store \/ faults' # faults)

\* The rows of the other ids are as they were, and there is a row of id
\* exactly if there was or the call succeeded.
OthersKept(id, ok) ==
    /\ DOMAIN store' = (IF ok THEN DOMAIN store \cup {id} ELSE DOMAIN store)
    /\ \A i \in DOMAIN store \ {id} : store'[i] = store[i]

\* C24 (as stated): a successful upsert leaves the row of the id with every
\* column, created_at included, that of the given record, the other rows as
\* they were; a failed one leaves the Store as it was.
C24_UpsertReplacesEveryField ==
    [][UpsertStep =>
          LET c == done'[1] IN
          IF c.ok
          THEN /\ OthersKept(c.t.ID, TRUE)
               /\ Plain(store'[c.t.ID]) = Bound(c.t)
               /\ DerivedFresh(store'[c.t.ID])
          ELSE store' = store]_vars

\* C24 (amended): a successful upsert leaves the row of the id with every
\* column that of the given record, except that created_at stays what it was
\* when the id was already in the Store; the other rows are as they were; a
\* failed upsert leaves the Store as it was.
C24_UpsertKeepsCreatedAt ==
    [][UpsertStep =>
          LET c == done'[1]
              id == c.t.ID
          IN
          IF c.ok
          THEN /\ OthersKept(id, TRUE)
               /\ Plain(store'[id]) =
                     [Bound(c.t) EXCEPT !.created_at =
                         IF id \in DOMAIN store THEN store[id].created_at ELSE @]
               /\ DerivedFresh(store'[id])
          ELSE store' = store]_vars

\* A record replaced by one with another created_at and another run history,
\* next to a record of the other id.
C24_Witness ==
    /\ done # <<>> /\ done[1].op = "upsert" /\ done[1].ok
    /\ DOMAIN store = {"a", "b"}
    /\ store[done[1].t.ID].created_at # done[1].t.CreatedAt
    /\ store[done[1].t.ID].title = done[1].t.Title
    /\ store[done[1].t.ID].flakiness_score.num = 1

\* The failures among the last w runs of a history.
FailsInLast(h, w) == Cardinality({i \in (Len(h) - w + 1)..Len(h) : h[i].result = "fail"})

\* C25: the score of every row is the number of "fail" results among the
\* last min(10, n) entries of its run history divided by min(10, n), and 0
\* for an empty history.
C25_FlakinessOverLastTen ==
    \A id \in DOMAIN store :
        LET h == CollOf(store[id].run_history)
            n == Len(h)
            w == IF n < 10 THEN n ELSE 10
            sc == store[id].flakiness_score
        IN  IF n = 0 THEN sc.num = 0 /\ sc.den # 0
            ELSE sc.den # 0 /\ sc.num * w = FailsInLast(h, w) * sc.den

\* A history of 11 runs whose oldest is the only failure: score 0.
C25_Witness ==
    \E id \in DOMAIN store :
        LET h == CollOf(store[id].run_history) IN
        /\ Len(h) = 11 /\ h[1].result = "fail"
        /\ store[id].flakiness_score.num = 0

\* Every record line a successful export wrote has its four collections as
\* arrays.
ExportedNonNull ==
    \A i \in 1..Len(done) :
        (done[i].op = "export" /\ done[i].ret = "ok") =>
            \A j \in 1..Len(done[i].logAfter.lines) :
                LET o == done[i].logAfter.lines[j].obj[1] IN
                /\ o.covers.k = "array" /\ o.depends_on.k = "array"
                /\ o.notes.k = "array" /\ o.run_history.k = "array"

\* C26: no collection column of the Store is null, and neither is a
\* collection of a record line that an export wrote.
C26_CollectionsNeverNull == NoNullColumn(store) /\ ExportedNonNull

\* C17: the lifecycle only moves forward (Initializing, Running,
\* ShuttingDown, Stopped), Running is reached only with the socket bound and
\* the markers written, and nothing happens in Stopped.
C17_LifecycleForward ==
    /\ [][/\ LifeState(dm) # "Stopped"
          /\ Rank(LifeState(dm')) >= Rank(LifeState(dm))]_vars
    /\ [](LifeState(dm) = "Running" =>
             dm.listening /\ dm.sock /\ dm.pid /\ dm.lock /\ dm.dbOpen)

\* The daemon ran, shut down on a signal and stopped.
C17_Witness == dm.exit = "0" /\ dm.sd = "exited" /\ dm.loop = "returned"

IsPrefix(a, b) == Len(a) <= Len(b) /\ \A i \in 1..Len(a) : a[i] = b[i]

ShuttingDown == dm.sd \notin {"none", "wait"}

Did(x) == \E i \in 1..Len(dm.order) : dm.order[i] = x

\* The Store is closed only after the serving and the watchers are stopped,
\* and a marker is deleted only after the Store is closed.
StoreThenMarkers ==
    /\ Did("closeDb") => Did("closeListener") /\ Did("stopWatcher") /\ Did("stopTrace")
    /\ (Did("rmSock") \/ Did("rmPid") \/ Did("rmLock")) => Did("closeDb")

\* C28 (as stated): Shutdown has closed the listener before it stops a
\* watcher; the Store and the markers come after both.
C28_ServingStopsBeforeWatchers ==
    /\ (Did("stopWatcher") \/ Did("stopTrace")) => Did("closeListener")
    /\ StoreThenMarkers

\* C28 (amended): Shutdown has stopped both watchers before it closes the
\* listener; the Store and the markers come after both.
C28_WatchersStopBeforeServing ==
    /\ Did("closeListener") => Did("stopWatcher") /\ Did("stopTrace")
    /\ StoreThenMarkers

\* The watchers are stopped, the listener is closed and the Store is still
\* open.
C28_Witness ==
    /\ dm.watcher /\ wl.closed /\ Did("closeListener") /\ ~dm.listening
    /\ dm.dbOpen /\ ~Did("closeDb")

\* C29: while the daemon is Running with the stop signal not raised, a
\* failed Accept is logged and leaves the main goroutine in the accept loop
\* and the lifecycle state as it was; and the accept loop has returned only
\* when the stop signal has been raised.
C29_AcceptErrorKeepsLoop ==
    /\ [][(dm.main = "accept" /\ ~dm.doneClosed /\ faults' # faults /\ th' = th)
             => /\ dm'.main = "accept" /\ dm'.exit = "none" /\ dm'.logged = dm.logged + 1
                /\ LifeState(dm') = LifeState(dm)
                /\ dm'.listening = dm.listening /\ dm'.doneClosed = dm.doneClosed]_vars
    /\ [](dm.main = "returned" => dm.doneClosed)

\* An Accept failed and was logged; the daemon is Running, listening.
C29_Witness ==
    /\ dm.logged = 1 /\ dm.main = "accept" /\ LifeState(dm) = "Running"
    /\ dm.listening /\ ~dm.doneClosed

\* C30: a failed startup import does not end the start (main goes on to bind
\* the socket); main calls one import, and the socket is bound and the
\* markers are written only after that import has returned.
C30_StartupImportNotFatal ==
    /\ [][(dm.main = "importing" /\ dm'.imp # dm.imp)
             => dm'.main = "listen" /\ dm'.exit = "none" /\ dm'.dbOpen]_vars
    /\ [](dm.nimp <= 1)
    /\ []((dm.listening \/ (~dm.found /\ (dm.sock \/ dm.pid \/ dm.lock)))
             => dm.nimp = 1 /\ dm.imp # "none")

\* The startup import failed and the daemon is Running, markers written.
C30_Witness ==
    /\ dm.imp = "err" /\ LifeState(dm) = "Running"
    /\ dm.listening /\ dm.sock /\ dm.pid /\ dm.lock

\* The handler of connection c has returned or can take a step of its own.
HandlerNotBlocked(c) ==
    \/ cn[c].st # "open"
    \/ ENABLED (HandleDecode(c) \/ HandleRespond(c) \/ CancelHandleStep(c))

\* C27: when Shutdown has raised the stop signal and done all it does to
\* stop the daemon's activities (the watchers stopped, the listener and the
\* Store closed), each activity has returned or can take a step of its own,
\* none waits for something only the outside can provide: the accept loop,
\* syncLoop, the two watchers' loops and every connection handler.
C27_EveryActivityObservesStop ==
    (Alive /\ dm.doneClosed /\ Did("closeDb")) =>
        /\ dm.main = "returned" \/ ENABLED AcceptError
        /\ dm.loop = "returned" \/ ENABLED (LoopReturns \/ LifeStep("ticker"))
        /\ dm.watcher => (wl.loop = "returned" \/ ENABLED CancelWatcherReturns)
        /\ dm.trace => (wl.tr.loop = "returned" \/ ENABLED CancelTraceReturns)
        /\ \A c \in Conns : HandlerNotBlocked(c)

\* C19: when the process ends after a signal started Shutdown (no system call
\* having failed), the Store is closed, the three markers are gone and the
\* exit status is 0.
C19_ShutdownCompletesBeforeExit ==
    (ShuttingDown /\ dm.exit # "none" /\ faults = 0) =>
        /\ dm.exit = "0"
        /\ ~dm.dbOpen /\ ~dm.sock /\ ~dm.pid /\ ~dm.lock

\* C20: however often shutdown is triggered, the stop signal is raised at
\* most once, nothing panics, and once Shutdown has begun the process ends.
C20_ShutdownOnce ==
    /\ [](dm.exit # "panic")
    /\ [](Cardinality({i \in 1..Len(dm.order) : dm.order[i] = "closeDone"}) <= 1)
    /\ (ShuttingDown ~> dm.exit # "none")

\* A second signal came while Shutdown was running and stayed in the
\* channel; the shutdown ran to its end.
C20_Witness == dm.sigs = 2 /\ dm.sig = 1 /\ dm.sd = "exited" /\ dm.exit = "0"

\* ------------------------------------------------- the later claims
\* The events the Watcher is said to react to: the target's base name and a
\* kind that is create or write.
Relevant(e) == e.name = FileName /\ ("create" \in e.op \/ "write" \in e.op)

\* The loop receives the event at the head of the channel.
Receives == wl.loop = "running" /\ evq # <<>> /\ evq' = Tail(evq)

\* C31: the File Watcher reacts only to create-or-write events of the target
\* file: receiving any other event of the watched directory neither starts
\* nor resets the debounce timer, and no timer is armed and no callback runs
\* that does not come from a create-or-write event of the target.
C31_OnlyTargetWritesCount ==
    /\ [][(Receives /\ ~Relevant(Head(evq))) =>
              /\ timers' = timers /\ timer' = timer
              /\ calls' = calls /\ wh'.n = wh.n /\ wh'.lastEv = wh.lastEv]_vars
    /\ [](wh.lastEv = 0 => (timers = {} /\ timer = 0 /\ calls = 0))
    /\ [](\A d \in timers : d = wh.lastEv + Debounce)

\* The loop has passed over an event, and the one callback came Debounce
\* after the create-or-write event.
C31_Witness ==
    /\ wh.ign /\ wh.n = 1 /\ calls = 1
    /\ wh.at = wh.lastEv + Debounce

\* This step is a call of DeleteTanda, resp. of ClearAll, that returned nil.
DeleteStep == done' # <<>> /\ done'[1].op = "delete" /\ done'[1].ok /\ done' # done

ClearStep == done' # <<>> /\ done'[1].op = "clear" /\ done'[1].ok /\ done' # done

\* getAll() after the step returns, in whatever order, one record per id of
\* ids and no other, each the record getAll() returned for the id before.
GetAllReturns(ids) ==
    /\ RowOrders(store') # {}
    /\ \A q \in RowOrders(store') :
          LET got == GetAllTandas(store', q) IN
          /\ Len(got) = Cardinality(ids)
          /\ {got[i].ID : i \in 1..Len(got)} = ids
          /\ \A i \in 1..Len(got) : got[i] = ScanRow(got[i].ID, store[got[i].ID])

\* C32: delete(id) removes the record of the id and leaves every other
\* record as it was, and succeeds without a change when there is no such
\* record; clearAll() leaves the Store empty; getAll() after either returns
\* exactly the records that remain.
C32_DeleteAndClearRemoveExactly ==
    /\ [][DeleteStep =>
             LET id == done'[1].t.ID IN
             /\ DOMAIN store' = DOMAIN store \ {id}
             /\ \A i \in DOMAIN store' : store'[i] = store[i]
             /\ id \notin DOMAIN store => store' = store
             /\ GetAllReturns(DOMAIN store \ {id})]_vars
    /\ [][ClearStep => (DOMAIN store' = {} /\ GetAllReturns({}))]_vars

\* One of two records has been deleted and the other one is there.
C32_Witness ==
    /\ done # <<>> /\ done[1].op = "delete" /\ done[1].ok
    /\ done[1].t.ID = "a"
    /\ DOMAIN store = {"b"}

\* This step is a call of NeedsSync.
NeedsSyncStep == Len(done') = Len(done) + 1 /\ done'[Len(done')].op = "needsSync"

\* C33: needsSync() is a pure query. It changes neither the Store, the log
\* nor lastSyncTime; when os.Stat gives an answer it returns true exactly if
\* the log exists and was modified later than lastSyncTime, so false for a
\* missing log (a failed os.Stat returns the error with false); and at the
\* return of a successful import or export it would return false.
C33_NeedsSyncIsPureQuery ==
    /\ [][NeedsSyncStep =>
             LET r == done'[Len(done')].ret IN
             /\ store' = store /\ log' = log /\ lastSync' = lastSync
             /\ r \in {"true", "false", "err"}
             /\ r = "true" => (log.exists /\ lastSync < log.mtime)
             /\ (r = "false" /\ log.exists) => log.mtime <= lastSync
             /\ r = "err" => done'[Len(done')].flt = {"stat"}]_vars
    /\ [][ReturnsOk("rpc") => ~NeedsSync(log', lastSync')]_vars
    /\ [](\A i \in 1..Len(done) :
            (/\ i > 1 /\ done[i].op = "needsSync" /\ done[i].flt = {}
             /\ done[i-1].op \in {"import", "export"} /\ done[i-1].ret = "ok"
             /\ done[i].logAfter = done[i-1].logAfter)
                => done[i].ret = "false")

\* NeedsSync has answered true for a log written after a successful import,
\* at a later time.
C33_Witness ==
    /\ Len(done) = 2
    /\ done[1].op = "import" /\ done[1].ret = "ok" /\ done[1].logAfter.exists
    /\ done[2].op = "needsSync" /\ done[2].ret = "true"
    /\ lastSync > 0 /\ log.mtime > lastSync

\* The call of goroutine p returns in this step, and what it returns.
ReturnsFrom(p, op, ret) ==
    th[p].pc # "idle" /\ th[p].op = op /\ th'[p].pc = "idle" /\ th'[p].ret = ret

\* C34: lastSyncTime changes only in the step in which an import that found
\* a log, or an export, returns success, and then to the time of that step;
\* an import that fails or finds no log and an export that fails at any
\* stage leave it as it was; it never decreases.
C34_LastSyncOnlyOnFullSuccess ==
    /\ [][lastSync' # lastSync =>
             /\ lastSync' = now
             /\ \E p \in Procs :
                   \/ ReturnsFrom(p, "export", "ok") /\ th[p].pc = "exp_rename"
                   \/ ReturnsFrom(p, "import", "ok") /\ th[p].pc = "imp_scan"]_vars
    /\ [][\A p \in Procs :
             (\/ ReturnsFrom(p, "import", "err")
              \/ ReturnsFrom(p, "export", "err")
              \/ ReturnsFrom(p, "import", "ok") /\ th[p].pc = "imp_open")
                 => lastSync' = lastSync]_vars
    /\ [][lastSync' >= lastSync]_vars
    /\ [](th["rpc"].pc # "idle" => lastSync = hs["rpc"].startSync)

\* An export has failed at the rename, later than an earlier call that
\* succeeded, and lastSyncTime is that of the earlier call.
C34_Witness ==
    /\ Len(done) = 2 /\ done[1].ret = "ok"
    /\ done[2].op = "export" /\ done[2].ret = "err" /\ done[2].flt = {"rename"}
    /\ lastSync > 0 /\ lastSync < now
    /\ lastSync = hs["rpc"].startSync

\* Process j makes a step of its start: of StartDaemon before Shutdown is
\* called.
StartActs(j) ==
    /\ dm.ps[j].exit = "none" /\ dm.ps[j].sd \in {"none", "wait"}
    /\ dm'.ps[j].pc # "returned"
    /\ dm'.ps[j].pc # dm.ps[j].pc \/ dm'.ps[j].exit = "1"

\* C35: when a process has ended without Shutdown and its socket file is
\* still there, a start made later gets no further than the socket check as
\* long as that file exists, and ends refused (as "already running", or for
\* its interval when that does not parse); and no step of any start removes
\* or replaces a socket file that was there before the start bound its own.
C35_StaleSocketRefusesStarts ==
    /\ [](\A j \in Insts :
            (dm.ps[j].late # 0 /\ dm.sock = dm.ps[j].late) =>
                /\ dm.ps[j].pc \in {"parse", "stat"}
                /\ ~dm.ps[j].up
                /\ dm.ps[j].exit = "1" =>
                      dm.ps[j].err \in {"already running", "invalid interval"})
    /\ [][\A j \in Insts :
             (StartActs(j) /\ dm.sock # 0 /\ dm.sock # j) => dm'.sock = dm.sock]_vars

\* Process i is Running: in the accept loop, Shutdown not begun.
DirRunning(i) ==
    Live(i) /\ dm.ps[i].pc = "accept" /\ dm.ps[i].sd \in {"none", "wait"}

\* C38: at most one process is Running in the directory at any time, and
\* while a process is Running the socket, the PID marker and the lock marker
\* are there and are its own, whatever starts and shutdowns overlap with it.
C38_OneRunningWithItsMarkers ==
    /\ Cardinality({i \in Insts : DirRunning(i)}) <= 1
    /\ \A i \in Insts : DirRunning(i) => (dm.sock = i /\ dm.pid = i /\ dm.lock = i)

\* C36: a successful export, with nothing else changing the Store while it
\* runs, leaves the log with exactly one line per record the Store held, the
\* line of that record, and leaves the Store as it was.
C36_ExportWritesEveryRecordOnce ==
    \A i \in 1..Len(done) :
        (done[i].op = "export" /\ done[i].ret = "ok") =>
            LET f == done[i].logAfter
                b == done[i].before
            IN  /\ f.exists
                /\ Len(f.lines) = Cardinality(DOMAIN b)
                /\ \A j \in 1..Len(f.lines) : f.lines[j].kind = "object"
                /\ {IdOfLine(f.lines[j]) : j \in 1..Len(f.lines)} = DOMAIN b
                /\ LogRecords(f) = Records(b)
                /\ done[i].after = b

\* An export of a Store of two records has replaced a log that held
\* something else, and the Store is as it was.
C36_Witness ==
    /\ Len(done) = 1
    /\ done[1].op = "export" /\ done[1].ret = "ok"
    /\ DOMAIN done[1].before = {"a", "b"}
    /\ Len(log.lines) = 2
    /\ hs["rpc"].startLog.exists /\ hs["rpc"].startLog.lines # log.lines
    /\ store = done[1].before

\* Nothing of the daemon is running or pending.
Quiescent == (\A p \in Procs : th[p].pc = "idle") /\ evq = <<>> /\ timers = {}

\* C37: as long as nothing outside the daemon has written the log, the log
\* holds the records it held at the start, whatever imports and exports the
\* daemon interleaves; and no record is gone from both the log and the Store
\* once the daemon has come to rest.
C37_DaemonKeepsLogRecords ==
    /\ edits = 0 => LogRecords(log) = LogRecords(DaemonLog)
    /\ (edits = 0 /\ Quiescent) =>
          \A r \in LogRecords(DaemonLog) : r \in LogRecords(log) \/ r \in Records(store)

\* Shutdown has closed the Store.
StoreClosed == Did("closeDb")

\* C39: once Shutdown has closed the Store the log is not written any more
\* and no Syncer call goes on, otherwise than by returning an error; no
\* export of syncLoop starts after the stop signal was raised; and no
\* import that was running when the Store was closed returns success.
C39_NothingRunsOnClosedStore ==
    /\ [][StoreClosed => log' = log]_vars
    /\ [][StoreClosed =>
             \A p \in Procs :
                 \/ th'[p] = th[p]
                 \/ th'[p].pc = "idle" /\ th'[p].ret = "err"]_vars
    /\ [][dm.doneClosed =>
             ~(th["ticker"].pc = "idle" /\ th'["ticker"].pc # "idle")]_vars
    /\ [][StoreClosed => \A p \in Procs : ~ReturnsFrom(p, "import", "ok")]_vars

\* A request whose handling is a lookup only: ping, status, or a method the
\* server does not know.
ReadOnlyMethod(m) == m \in {"ping", "status"} \/ m \notin Known

\* The handler of c decodes a read-only request in this step, or answers one.
ServesReadOnly(c) ==
    \/ /\ cn[c].cur = <<>> /\ cn'[c].cur # <<>>
       /\ ReadOnlyMethod(cn'[c].cur[1].method)
    \/ /\ cn[c].cur # <<>> /\ cn'[c].cur = <<>>
       /\ ReadOnlyMethod(cn[c].cur[1].method)

\* Every answer to a status request reports running, the pid of the daemon's
\* process, and a text that parses to the duration the configured interval
\* parses to.
StatusReports ==
    \A c \in Conns : \A i \in 1..Len(cn[c].out) :
        cn[c].got[i].method = "status" =>
            /\ cn[c].out[i].result = "status" /\ cn[c].out[i].error = <<>>
            /\ cn[c].out[i].data.running = TRUE
            /\ cn[c].out[i].data.pid = dm.ospid
            /\ ParseDuration(cn[c].out[i].data.interval) = ParseDuration(dm.ivl)

\* C40: decoding and answering a ping, a status or an unknown-method request
\* leaves the Store, the log file, lastSync, the markers and the lifecycle
\* state as they were and starts no Syncer call; and the answer to a status
\* request always says running = TRUE, the daemon's own pid and the
\* configured interval (the same duration, in Duration.String()'s form).
C40_ReadOnlyRequests ==
    /\ []StatusReports
    /\ [][\A c \in Conns : ServesReadOnly(c) =>
             /\ store' = store /\ log' = log /\ lastSync' = lastSync
             /\ dm' = dm /\ LifeState(dm') = LifeState(dm)
             /\ th'[c].pc = "idle" /\ calls' = calls]_vars

\* A status request answered by a daemon configured with "60s", which it
\* reports as "1m0s", after a sync on the same connection wrote the log.
C40_Witness ==
    \E c \in Conns :
        /\ Len(cn[c].out) = 2
        /\ cn[c].got[1].method = "sync" /\ cn[c].out[1].result = "synced"
        /\ cn[c].got[2].method = "status"
        /\ dm.ivl = <<60, "s">>
        /\ cn[c].out[2].data = [running |-> TRUE, pid |-> dm.ospid,
                                interval |-> <<1, "m", 0, "s">>]

====
